---- MODULE Spec2Model ----
(***************************************************************************)
(* Plan construction of the cooking assistant: CookingAssistant turns the  *)
(* steps of a confirmed recipe into Gantt tasks (_generate_gantt_chart),   *)
(* writes them to a JSON file (_save_gantt_chart) and GanttVisualizer      *)
(* reloads the file and renders it as text (process_gantt_file,            *)
(* create_ascii_gantt) and, where matplotlib is there, as a figure         *)
(* (visualize_gantt).  Around it, the session of CookingAssistant.run and  *)
(* the StateMachine of states.py: ingredients, proposal, confirmation,     *)
(* guidance, step execution, completion and restart.  Beside the main      *)
(* thread, the monitor thread of timer.py, the thread of hardware_handler  *)
(* that polls the buttons and runs their handlers, and the input threads   *)
(* of execute_current_step.  Each part has its own specification over the  *)
(* same variables; a part that a specification leaves out stays idle.      *)
(*                                                                         *)
(* Representation.  A Python str is a sequence of one-character strings    *)
(* (<<"t","a","s","k","1">> is "task1"); non-ASCII characters of the       *)
(* source's literals are written as their ASCII base letter.  A dict is a  *)
(* function from keys to values (a record), so dict.get is Get.  A bare    *)
(* string step is the record [str |-> text].  A datetime is a number of    *)
(* clock ticks, TicksPerMinute to the minute; a duration in minutes (a     *)
(* JSON number, possibly fractional) is held as its number of ticks.  The  *)
(* text "YYYY-MM-DD HH:MM" that strftime produces is held as the minute    *)
(* count it denotes.                                                       *)
(***************************************************************************)
EXTENDS Integers, Sequences, FiniteSets, TLC

VARIABLES
    pc,            \* position of the main thread
    steps_data,    \* recipe_data["steps"], as returned by the recipe source
    recipe_name,   \* recipe_data["title"]
    now,           \* datetime.now(), in ticks
    i,             \* _generate_gantt_chart: loop index (0-based, as enumerate)
    start_time,    \* _generate_gantt_chart: local start_time, in ticks
    gantt_data,    \* _generate_gantt_chart: local gantt_data, then its return value
    json_file,     \* content of gantt_charts/<name>_<timestamp>.json
    loaded_data,   \* process_gantt_file: gantt_data returned by load_gantt_data
    ascii_gantt,   \* process_gantt_file: local ascii_gantt, a sequence of lines
    run,           \* number of the plan construction under way (1 for the first)
    other_steps,   \* steps of another recipe, confirmed between two runs
    first_plan,    \* return value of the first plan construction
    HAS_MATPLOTLIB, \* gantt_visualizer.HAS_MATPLOTLIB
    ascii_file,    \* content of gantt_ascii/<name>_<timestamp>.txt, <<>> while not written
    fig,           \* the value visualize_gantt returned last
    png_file,      \* the figure saved as gantt_visuals/<name>_<timestamp>.png
    exception,     \* what was raised inside _save_gantt_chart, "none" while nothing was
    state_machine, \* the attributes of CookingAssistant.state_machine
    task_duration, \* create_ascii_gantt: task_duration, <<numerator, denominator>> minutes
    bar,           \* create_ascii_gantt: the bar drawn for task_duration
    clock,         \* datetime.now() as the threads read it, in ticks of a second
    gantt_charts,  \* the directory gantt_charts/: the file of each filename
    filename,      \* the value _save_gantt_chart returned last
    previous,      \* an earlier save: its recipe name, filename and file
    timer,         \* the attributes of CookingAssistant.timer
    monitor,       \* the frame of the thread that runs _monitor_timers
    console,       \* what the timer and the Back button printed, line by line
    button,        \* the frame of the thread that runs _button_back
    next_button_event, \* CookingAssistant._next_button_event
    input_threads, \* the threads started by get_interruptible_input
    user_input,    \* user_input of execute_current_step
    hardware,      \* the attributes of CookingAssistant.hardware
    gpio,          \* the level of each pin, and what the poll has read of it
    poll,          \* the frame of the thread that runs _poll_buttons
    calls,         \* the calls of the button callbacks, in order
    result,        \* the last call of a StateMachine method and what it returned
    executed       \* the steps execute_current_step returned True for

\* what the visualizer leaves behind
artifacts == <<ascii_file, fig, png_file, exception>>

\* what plan construction never touches
session == <<HAS_MATPLOTLIB, state_machine, task_duration, bar>>

\* what one confirmation computes, pc aside
plan == <<steps_data, recipe_name, now, i, start_time, gantt_data, json_file,
          loaded_data, ascii_gantt, run, other_steps, first_plan>>

\* the files of the plans
files == <<clock, gantt_charts, filename, previous>>

\* the timers and their thread
timers == <<timer, monitor, console>>

\* the input of a step
input == <<next_button_event, input_threads, user_input>>

\* the buttons and their thread
polling == <<hardware, gpio, poll, calls>>

\* what a confirmation without files never touches
threads == <<files, timers, button, input, polling, result, executed>>

vars == <<pc, plan, artifacts, session, threads>>

-----------------------------------------------------------------------------
(* Bounds of the model *)

MaxSteps == 3

TicksPerMinute == 2

MaxBarNumerator == 201

\* ticks of the clock in a second
TicksPerSecond == 2

\* the last reading of the clock
MaxClock == 3

\* confirmations in a session that saves plan after plan
MaxSaves == 2

\* timers started in a session
MaxTimers == 2

\* lines typed while a step is executed
MaxLines == 3

\* times a button is pressed
MaxPresses == 3

-----------------------------------------------------------------------------
(* Python built-ins *)

Get(d, k, default) == IF k \in DOMAIN d THEN d[k] ELSE default

Min(a, b) == IF a <= b THEN a ELSE b

Max(a, b) == IF a >= b THEN a ELSE b

Rep(c, n) == [k \in 1..Max(n, 0) |-> c]

\* s[:n] for n >= 0
Take(s, n) == SubSeq(s, 1, Min(n, Len(s)))

\* s[n:] for n >= 0
Drop(s, n) == SubSeq(s, Min(n, Len(s)) + 1, Len(s))

\* str(n) for an integer n
RECURSIVE Str(_)
Str(n) ==
    IF n < 0 THEN <<"-">> \o Str(0 - n)
    ELSE IF n < 10 THEN <<ToString(n)>>
    ELSE Str(n \div 10) \o <<ToString(n % 10)>>

\* sum(f(x) for x in s)
RECURSIVE SumSeq(_)
SumSeq(s) == IF s = <<>> THEN 0 ELSE s[1] + SumSeq(Tail(s))

\* datetime.strftime("%Y-%m-%d %H:%M"): the seconds are cut off
Strftime(t) == t \div TicksPerMinute

\* datetime.strptime(text, "%Y-%m-%d %H:%M")
Strptime(m) == m * TicksPerMinute

\* timedelta(minutes=d) for d whole minutes
Minutes(d) == d * TicksPerMinute

-----------------------------------------------------------------------------
(* The recipe source: what llm_agent.get_recipe_steps may hand over.  A     *)
(* step is a bare string (the text fallback) or a dict whose keys id,       *)
(* description, duration_minutes and dependencies may each be missing.      *)

Id_A == <<"A">>

Id_B == <<"B">>

Id_C == <<"C">>

Id_task1 == <<"t", "a", "s", "k", "1">>

Id_task2 == <<"t", "a", "s", "k", "2">>

Id_ghost == <<"g", "h", "o", "s", "t">>

\* a bare string step
StepBare == [str |-> <<"m", "i", "x">>]

StepA ==
    [id |-> Id_A, description |-> <<"p", "e", "e", "l">>,
     duration_minutes |-> Minutes(2)]

StepB ==
    [id |-> Id_B, description |-> <<"c", "h", "o", "p", " ", "i", "t">>,
     duration_minutes |-> Minutes(3), dependencies |-> <<Id_A>>]

StepC ==
    [id |-> Id_C, description |-> <<"f", "r", "y">>,
     duration_minutes |-> Minutes(1), dependencies |-> <<Id_A, Id_B>>]

\* a second step named A, one tick (a fraction of a minute) long, that waits
\* for B
StepAOnB ==
    [id |-> Id_A, description |-> <<"w", "a", "s", "h">>,
     duration_minutes |-> 1, dependencies |-> <<Id_B>>]

\* a step that names itself as a dependency
StepSelf ==
    [id |-> Id_C, description |-> <<"s", "t", "i", "r">>,
     duration_minutes |-> Minutes(2), dependencies |-> <<Id_C>>]

\* a dict with neither id, description nor duration, and an unknown dependency
StepNoId == [dependencies |-> <<Id_ghost>>]

\* an explicit id that reads like a synthetic one
StepTask2 ==
    [id |-> Id_task2, description |-> <<"b", "o", "i", "l">>,
     duration_minutes |-> Minutes(1), dependencies |-> <<Id_task1, Id_ghost>>]

StepChoices ==
    {StepBare, StepA, StepB, StepC, StepAOnB, StepSelf, StepNoId, StepTask2}

StepLists == UNION {[1..n -> StepChoices] : n \in 0..MaxSteps}

Id_Z == <<"Z">>

Id_N == <<"N">>

Id_L == <<"L">>

Id_X == <<"X">>

\* a step that takes no time
StepZero ==
    [id |-> Id_Z, description |-> <<"r", "e", "s", "t">>, duration_minutes |-> 0]

\* a step whose declared duration is negative
StepNegative ==
    [id |-> Id_N, description |-> <<"c", "h", "i", "l", "l">>,
     duration_minutes |-> 0 - Minutes(2)]

\* a negative fraction of a minute
StepNegativeFraction ==
    [id |-> Id_N, description |-> <<"t", "h", "a", "w">>, duration_minutes |-> 0 - 1]

\* a description longer than the label field of the text chart
StepLong ==
    [id |-> Id_L,
     description |->
        <<"c", "a", "r", "a", "m", "e", "l", "i", "s", "e", " ", "t", "h", "e", " ", "o", "n", "i", "o", "n", "s", " ",
          "v", "e", "r", "y", " ", "s", "l", "o", "w", "l", "y">>,
     duration_minutes |-> Minutes(12), dependencies |-> <<Id_Z, Id_X>>]

\* a description exactly as long as the label field
StepExact ==
    [id |-> Id_X,
     description |->
        <<"w", "h", "i", "s", "k", " ", "t", "h", "e", " ", "e", "g", "g", "s", " ", "w", "i", "t", "h",
          " ", "t", "h", "e", " ", "s", "u", "g", "a", "r", ".">>,
     duration_minutes |-> Minutes(4)]

ExtremeChoices ==
    {StepBare, StepZero, StepNegative, StepNegativeFraction, StepLong, StepExact}

ExtremeStepLists == UNION {[1..n -> ExtremeChoices] : n \in 0..MaxSteps}

OtherStepLists == {<<StepBare, StepB>>}

RecipeNames == {<<"S", "o", "u", "p">>}

\* the instants datetime.now() may return: every tick of one minute
Instants == TicksPerMinute..(2 * TicksPerMinute - 1)

\* shutil.get_terminal_size().columns
TerminalColumns == {48, 200}

-----------------------------------------------------------------------------
(* states.py: StateMachine.  The object is the record of its attributes;    *)
(* an attribute that was never assigned is a key the record does not have.  *)

\* None, where a str may stand (no str is a single element of four letters)
None == <<"None">>

\* setattr(obj, name, value)
SetAttr(obj, name, value) ==
    [k \in DOMAIN obj \cup {name} |-> IF k = name THEN value ELSE obj[k]]

\* the attributes StateMachine.__init__ assigns
StateMachineInit ==
    [current_state |-> "starting",
     servings |-> 2,
     ingredients |-> <<>>,
     proposed_recipes |-> <<>>,
     selected_recipe |-> None,
     current_step |-> 0,
     recipe_steps |-> <<>>,
     additional_recipe_request |-> None]

\* StateMachine.reset: self.__init__() on the object as it is
Reset(obj) ==
    [k \in DOMAIN obj \cup DOMAIN StateMachineInit |->
        IF k \in DOMAIN StateMachineInit THEN StateMachineInit[k] ELSE obj[k]]

\* StateMachine.transition_to
TransitionTo(obj, new_state) == [obj EXCEPT !.current_state = new_state]

\* StateMachine.set_proposed_recipes
SetProposedRecipes(obj, recipes) == [obj EXCEPT !.proposed_recipes = recipes]

\* what StateMachine.select_recipe returns
SelectRecipeReturns(obj, recipe_index) ==
    0 <= recipe_index /\ recipe_index < Len(obj.proposed_recipes)

\* StateMachine.select_recipe
SelectRecipe(obj, recipe_index) ==
    IF SelectRecipeReturns(obj, recipe_index)
    THEN [obj EXCEPT !.selected_recipe = obj.proposed_recipes[recipe_index + 1]]
    ELSE obj

\* StateMachine.set_recipe_steps
SetRecipeSteps(obj, steps) == [obj EXCEPT !.recipe_steps = steps, !.current_step = 0]

\* what StateMachine.next_step returns
NextStepReturns(obj) == obj.current_step < Len(obj.recipe_steps) - 1

\* one more step whatever the number of steps
NextStepUnguarded(obj) == [obj EXCEPT !.current_step = @ + 1]

\* StateMachine.next_step
NextStep(obj) ==
    IF obj.current_step < Len(obj.recipe_steps) - 1
    THEN [obj EXCEPT !.current_step = @ + 1]
    ELSE obj

\* StateMachine.get_current_step
GetCurrentStep(obj) ==
    IF 0 <= obj.current_step /\ obj.current_step < Len(obj.recipe_steps)
    THEN obj.recipe_steps[obj.current_step + 1]
    ELSE None

\* complete one step before the last
IsCookingCompleteEarly(obj) == obj.current_step >= Len(obj.recipe_steps) - 2

\* StateMachine.is_cooking_complete
IsCookingComplete(obj) == obj.current_step >= Len(obj.recipe_steps) - 1

\* what the user types for the ingredients, split at the commas
IngredientsTyped == <<<<"e", "g", "g">>, <<"o", "i", "l">>>>

\* the recipes the LLM proposes, split at the blank lines
RecipesProposed == <<<<"S", "o", "u", "p">>, <<"F", "l", "a", "n">>>>

\* the texts confirm_recipe shows for the steps: the description of a dict
\* step ("" when it has none), a bare string step itself
StepTexts(steps) ==
    [k \in DOMAIN steps |->
        IF "str" \in DOMAIN steps[k] THEN steps[k].str
        ELSE IF "description" \in DOMAIN steps[k] THEN steps[k].description
        ELSE <<>>]

\* confirm_recipe, from the recipe data to the call of _generate_gantt_chart:
\* the steps, the title and the detailed steps are stored in the state machine
StoreRecipe(obj, steps, title) ==
    SetAttr([obj EXCEPT !.recipe_steps = StepTexts(steps),
                        !.current_step = 0,
                        !.selected_recipe = title],
            "detailed_steps", steps)

\* the state machine of a session that has come to its first confirmation
AtFirstConfirmation(steps, title) ==
    StoreRecipe([StateMachineInit EXCEPT !.current_state = "recipe_confirmation",
                                         !.ingredients = IngredientsTyped,
                                         !.proposed_recipes = RecipesProposed],
                steps, title)

-----------------------------------------------------------------------------
(* CookingAssistant._generate_gantt_chart *)

DefaultDuration == 5

EmptyGantt == [tasks |-> <<>>, resources |-> <<>>, roles |-> <<>>]

IsStr(step) == "str" \in DOMAIN step

\* f"task{i+1}"
SyntheticId(idx) == <<"t", "a", "s", "k">> \o Str(idx + 1)

\* f"Etape {i+1}"
DefaultName(idx) == <<"E", "t", "a", "p", "e", " ">> \o Str(idx + 1)

\* the task built for steps_data[idx] (idx 0-based) when start_time is st
TaskOf(idx, step, st) ==
    IF IsStr(step)
    THEN [id |-> SyntheticId(idx),
          name |-> step.str,
          start |-> Strftime(st),
          duration |-> Minutes(DefaultDuration),
          complete |-> 0,
          predecessors |-> <<>>]
    ELSE [id |-> Get(step, "id", SyntheticId(idx)),
          name |-> Get(step, "description", DefaultName(idx)),
          start |-> Strftime(st),
          duration |-> Get(step, "duration_minutes", Minutes(DefaultDuration)),
          complete |-> 0,
          predecessors |-> Get(step, "dependencies", <<>>)]

\* start_time is never advanced: every task starts at the anchor
AdvanceStartNever(step, st) == st

\* start_time after steps_data[idx]: only a dict step advances it
AdvanceStart(step, st) ==
    IF IsStr(step)
    THEN st
    ELSE st + Get(step, "duration_minutes", Minutes(DefaultDuration))

\* entry of the call with start_time kept from the call before
GenerateEnterStale ==
    /\ pc = "confirm_recipe"
    /\ gantt_data' = EmptyGantt
    /\ start_time' = IF run = 1 THEN now ELSE start_time
    /\ i' = 0
    /\ pc' = "generate_loop"
    /\ UNCHANGED <<steps_data, recipe_name, now, json_file, loaded_data, ascii_gantt,
                   run, other_steps, first_plan,
                   artifacts, session, threads>>

\* entry of the call: fresh locals, start_time = datetime.now()
GenerateEnter ==
    /\ pc = "confirm_recipe"
    /\ gantt_data' = EmptyGantt
    /\ start_time' = now
    /\ i' = 0
    /\ pc' = "generate_loop"
    /\ UNCHANGED <<steps_data, recipe_name, now, json_file, loaded_data, ascii_gantt,
                   run, other_steps, first_plan,
                   artifacts, session, threads>>

\* one iteration of "for i, step in enumerate(steps_data)"
GenerateStep ==
    /\ pc = "generate_loop"
    /\ i < Len(steps_data)
    /\ gantt_data' =
         [gantt_data EXCEPT !.tasks = Append(@, TaskOf(i, steps_data[i + 1], start_time))]
    /\ start_time' = AdvanceStart(steps_data[i + 1], start_time)
    /\ i' = i + 1
    /\ UNCHANGED <<pc, steps_data, recipe_name, now, json_file, loaded_data, ascii_gantt,
                   run, other_steps, first_plan,
                   artifacts, session, threads>>

\* "return gantt_data"; first_plan is a history variable: the first call's
\* arguments and result
GenerateReturn ==
    /\ pc = "generate_loop"
    /\ i >= Len(steps_data)
    /\ pc' = "generated"
    /\ first_plan' =
         IF run = 1
         THEN [steps_data |-> steps_data, now |-> now, gantt_data |-> gantt_data]
         ELSE first_plan
    /\ UNCHANGED <<steps_data, recipe_name, now, i, start_time, gantt_data, json_file,
                   loaded_data, ascii_gantt, run, other_steps,
                   artifacts, session, threads>>

-----------------------------------------------------------------------------
(* json.dump and json.load.  A JSON document is the sequence of its          *)
(* <<key, value>> members in the order the dict holds them; loading builds   *)
(* the dict back, the last member of a key winning.                          *)

TaskKeys == <<"id", "name", "start", "duration", "complete", "predecessors">>

GanttKeys == <<"tasks", "resources", "roles">>

\* the last key of the dict is not written
DumpObjectWithoutLast(d, keys) == [k \in 1..(Len(keys) - 1) |-> <<keys[k], d[keys[k]]>>]

DumpObject(d, keys) == [k \in 1..Len(keys) |-> <<keys[k], d[keys[k]]>>]

LoadObject(members) ==
    [key \in {members[k][1] : k \in DOMAIN members} |->
        members[CHOOSE k \in DOMAIN members :
                    /\ members[k][1] = key
                    /\ \A m \in DOMAIN members : members[m][1] = key => m <= k][2]]

\* json.dump(gantt_data, f, indent=2, ensure_ascii=False)
JsonDump(data) ==
    DumpObject([data EXCEPT !.tasks = [k \in DOMAIN @ |-> DumpObject(@[k], TaskKeys)]],
               GanttKeys)

\* GanttVisualizer.load_gantt_data
LoadGanttData(file) ==
    LET top == LoadObject(file)
    IN  [top EXCEPT !.tasks = [k \in DOMAIN @ |-> LoadObject(@[k])]]

-----------------------------------------------------------------------------
(* GanttVisualizer.create_ascii_gantt *)

name_width == 30

MaxTerminalWidth == 150

HeaderLines == 4

NoTasksMessage ==
    <<"A", "u", "c", "u", "n", "e", " ", "t", "a", "c", "h", "e", " ", "t", "r", "o", "u",
      "v", "e", "e", " ", "d", "a", "n", "s", " ", "l", "e", "s", " ", "d", "o", "n", "n",
      "e", "e", "s", " ", "d", "u", " ", "d", "i", "a", "g", "r", "a", "m", "m", "e", " ",
      "d", "e", " ", "G", "a", "n", "t", "t">>

\* int(d + 0.99) for a duration of n/d minutes: truncation towards zero
IntPlus099(n, d) ==
    LET num == 100 * n + 99 * d
        den == 100 * d
    IN  IF num >= 0 THEN num \div den ELSE 0 - ((0 - num) \div den)

\* f"{d:.0f}" for a duration of n/d minutes: rounding to the nearest whole,
\* ties to even, the sign kept ("-0" for a negative fraction that rounds to
\* zero)
RECURSIVE FormatRounded(_, _)
FormatRounded(n, d) ==
    LET q == n \div d
        r == n % d
    IN  IF n < 0 THEN <<"-">> \o FormatRounded(0 - n, d)
        ELSE Str(IF 2 * r < d THEN q
                 ELSE IF 2 * r > d THEN q + 1
                 ELSE IF q % 2 = 0 THEN q ELSE q + 1)

\* f"{d}" for a sum of t ticks: the digits of an int; a float (is_float) with
\* its first decimal
RECURSIVE FormatNumber(_, _)
FormatNumber(t, is_float) ==
    IF t < 0 THEN <<"-">> \o FormatNumber(0 - t, is_float)
    ELSE IF is_float
    THEN Str(t \div TicksPerMinute) \o <<".">>
         \o Str((10 * (t % TicksPerMinute)) \div TicksPerMinute)
    ELSE Str(t \div TicksPerMinute)

\* f"{title:^{width}}"
Center(text, width) ==
    LET pad == Max(width - Len(text), 0)
    IN  Rep(" ", pad \div 2) \o text \o Rep(" ", pad - pad \div 2)

\* ", ".join(names)
RECURSIVE Join(_)
Join(names) ==
    IF names = <<>> THEN <<>>
    ELSE IF Len(names) = 1 THEN names[1]
    ELSE names[1] \o <<",", " ">> \o Join(Tail(names))

\* line.find(c, from): the 0-based index of the first c at or after from, -1
\* when there is none
Find(line, c, from) ==
    LET hits == {k \in from..(Len(line) - 1) : line[k + 1] = c}
    IN  IF hits = {} THEN 0 - 1 ELSE CHOOSE k \in hits : \A m \in hits : k <= m

\* task.get('id', f"task{i+1}") for the task at 0-based index idx
TaskId(tasks, idx) == Get(tasks[idx + 1], "id", SyntheticId(idx))

\* the 0-based indices of the tasks whose id is id
IndicesOf(tasks, id) == {idx \in 0..(Len(tasks) - 1) : TaskId(tasks, idx) = id}

FirstIndexOf(tasks, id) ==
    CHOOSE idx \in IndicesOf(tasks, id) : \A m \in IndicesOf(tasks, id) : idx <= m

LastIndexOf(tasks, id) ==
    CHOOSE idx \in IndicesOf(tasks, id) : \A m \in IndicesOf(tasks, id) : idx >= m

\* task.get('short_description', task.get('name', f"Tache {i+1}"))
ShortName(task, idx) ==
    Get(task, "short_description",
        Get(task, "name", <<"T", "a", "c", "h", "e", " ">> \o Str(idx + 1)))

\* the name is padded but never cut
LabelUncut(text) ==
    IF Len(text) < name_width THEN text \o Rep(" ", name_width - Len(text)) ELSE text

\* the label field: the name cut to name_width with "..." or padded to it
Label(text) ==
    IF Len(text) > name_width
    THEN Take(text, name_width - 3) \o <<".", ".", ".">>
    ELSE IF Len(text) < name_width
    THEN text \o Rep(" ", name_width - Len(text))
    ELSE text

\* the bar of a task of n/d minutes, the duration written inside when it fits
Bar(n, d) ==
    LET equal_count == Max(1, IntPlus099(n, d))
        duration_label == FormatRounded(n, d) \o <<"m">>
    IN  IF equal_count >= Len(duration_label) + 2
        THEN <<"=">> \o duration_label
             \o Rep("=", equal_count - Len(duration_label) - 1)
        ELSE Rep("=", equal_count)

\* the line of the task at 0-based index idx
TaskLine(task, idx) ==
    Label(ShortName(task, idx)) \o <<" ", "|", " ">>
    \o Bar(Get(task, "duration", 0), TicksPerMinute)

\* the keys of task_positions, in insertion order: the ids by first occurrence
IdOrder(tasks) ==
    LET first == {idx \in 0..(Len(tasks) - 1) :
                     FirstIndexOf(tasks, TaskId(tasks, idx)) = idx}
        nth[k \in 1..Cardinality(first)] ==
            CHOOSE idx \in first : Cardinality({m \in first : m < idx}) = k - 1
    IN  [k \in 1..Cardinality(first) |-> TaskId(tasks, nth[k])]

\* the predecessors task_dependencies holds for an id: those of the first task
\* that has the id
PredecessorsOf(tasks, id) ==
    Get(tasks[FirstIndexOf(tasks, id) + 1], "predecessors", <<>>)

\* task_positions after the bars are laid out: the last task of an id wins
InitialPositions(tasks) ==
    [id \in {TaskId(tasks, idx) : idx \in 0..(Len(tasks) - 1)} |->
        HeaderLines + LastIndexOf(tasks, id)]

\* dependency_names: "id:name[:5]" for every dependency that is a task's id
RECURSIVE DependencyNames(_, _)
DependencyNames(tasks, dependencies) ==
    IF dependencies = <<>> THEN <<>>
    ELSE LET dep_id == dependencies[1]
             rest == DependencyNames(tasks, Tail(dependencies))
         IN  IF IndicesOf(tasks, dep_id) = {} THEN rest
             ELSE LET idx == FirstIndexOf(tasks, dep_id)
                  IN  <<dep_id \o <<":">> \o Take(ShortName(tasks[idx + 1], idx), 5)>>
                      \o rest

\* the names an annotation shows: the raw ids when no dependency was found
ShownNames(tasks, dependencies) ==
    IF DependencyNames(tasks, dependencies) = <<>>
    THEN dependencies
    ELSE DependencyNames(tasks, dependencies)

\* the annotation loop from the k-th key of task_dependencies on: the output
\* lines and the task positions it ends with
RECURSIVE Annotate(_, _, _, _, _, _)
Annotate(k, order, tasks, lines, positions, terminal_width) ==
    IF k > Len(order) THEN [lines |-> lines, positions |-> positions]
    ELSE
      LET task_id == order[k]
          names == ShownNames(tasks, PredecessorsOf(tasks, task_id))
          line_idx == positions[task_id]
          line == lines[line_idx + 1]
          found == Find(line, " ", name_width + 3)
          bar_end_pos == IF found = 0 - 1 THEN Len(line) ELSE found
          dependencies_str == <<" ", "<", " ">> \o Join(names)
          dep_line == Rep(" ", name_width + 3) \o <<"R", "e", "q", "u", "i", "e", "r", "t", ":", " ">> \o Join(names)
      IN  IF bar_end_pos + Len(dependencies_str) <= terminal_width
          THEN Annotate(k + 1, order, tasks,
                        [lines EXCEPT ![line_idx + 1] =
                            Take(Take(line, bar_end_pos) \o dependencies_str
                                 \o Drop(line, bar_end_pos + Len(dependencies_str)),
                                 terminal_width)],
                        positions, terminal_width)
          ELSE Annotate(k + 1, order, tasks,
                        Take(lines, line_idx + 1) \o <<Take(dep_line, terminal_width)>>
                        \o Drop(lines, line_idx + 1),
                        [id \in DOMAIN positions |->
                            IF positions[id] > line_idx
                            THEN positions[id] + 1
                            ELSE positions[id]],
                        terminal_width)

\* the span from the first start to the latest end, in place of the sum
TotalDurationAsMakespan(tasks) ==
    LET ends == {Strptime(tasks[k].start) + tasks[k].duration : k \in DOMAIN tasks}
    IN  (CHOOSE e \in ends : \A other \in ends : e >= other) - Strptime(tasks[1].start)

\* total_duration = sum(task.get('duration', 0) for task in tasks)
TotalDuration(tasks) == SumSeq([k \in DOMAIN tasks |-> Get(tasks[k], "duration", 0)])

\* a sum is a float as soon as one duration is: a fraction of a minute
TotalIsFloat(tasks) ==
    \E k \in DOMAIN tasks : Get(tasks[k], "duration", 0) % TicksPerMinute # 0

LegendLine(total_duration, is_float) ==
    <<"L", "e", "g", "e", "n", "d", "e", ":", " ", "*", " ", "C", "h", "a", "q", "u", "e",
      " ", "'", "=", "'", " ", "r", "e", "p", "r", "e", "s", "e", "n", "t", "e", " ", "1",
      " ", "m", "i", "n", "u", "t", "e", " ", " ", "*", " ", "D", "u", "r", "e", "e", " ",
      "t", "o", "t", "a", "l", "e", " ", "e", "s", "t", "i", "m", "e", "e", ":", " ">>
    \o FormatNumber(total_duration, is_float) \o <<" ", "m", "i", "n", "u", "t", "e", "s">>

NotationLine ==
    <<" ", " ", " ", " ", " ", " ", " ", " ", " ", "*", " ", "L", "a", " ", "n", "o", "t",
      "a", "t", "i", "o", "n", " ", "'", "I", "D", ":", "N", "o", "m", "'", " ", "a", "p",
      "r", "e", "s", " ", "'", "<", "'", " ", "i", "n", "d", "i", "q", "u", "e", " ", "l",
      "e", "s", " ", "d", "e", "p", "e", "n", "d", "a", "n", "c", "e", "s", " ", "(", "e",
      "t", "a", "p", "e", "s", " ", "p", "r", "e", "a", "l", "a", "b", "l", "e", "s", " ",
      "r", "e", "q", "u", "i", "s", "e", "s", ")">>

\* the keys of task_dependencies, in insertion order
DependencyOrder(tasks) ==
    SelectSeq(IdOrder(tasks), LAMBDA id : PredecessorsOf(tasks, id) # <<>>)

\* the chart without the test for an empty task list
CreateAsciiGanttUnguarded(data, title, terminal_width) ==
    LET tasks == Get(data, "tasks", <<>>)
        header == <<Rep("=", terminal_width), Center(title, terminal_width),
                    Rep("=", terminal_width), <<>>>>
        bars == [k \in DOMAIN tasks |-> TaskLine(tasks[k], k - 1)]
        annotated == Annotate(1, DependencyOrder(tasks), tasks, header \o bars,
                              InitialPositions(tasks), terminal_width)
    IN  annotated.lines
        \o <<<<>>, Rep("-", terminal_width),
             LegendLine(TotalDuration(tasks), TotalIsFloat(tasks)),
             NotationLine, Rep("=", terminal_width)>>

\* the lines of the text chart; the returned string joins them with "\n"
CreateAsciiGantt(data, title, terminal_width) ==
    LET tasks == Get(data, "tasks", <<>>)
    IN  IF tasks = <<>> THEN <<NoTasksMessage>>
        ELSE
          LET header == <<Rep("=", terminal_width), Center(title, terminal_width),
                          Rep("=", terminal_width), <<>>>>
              bars == [k \in DOMAIN tasks |-> TaskLine(tasks[k], k - 1)]
              annotated == Annotate(1, DependencyOrder(tasks), tasks, header \o bars,
                                    InitialPositions(tasks), terminal_width)
          IN  annotated.lines
              \o <<<<>>, Rep("-", terminal_width),
                   LegendLine(TotalDuration(tasks), TotalIsFloat(tasks)),
                   NotationLine, Rep("=", terminal_width)>>

-----------------------------------------------------------------------------
(* GanttVisualizer.visualize_gantt.  A figure is the record of what was     *)
(* drawn on it.                                                              *)

\* None, where a figure may stand
NoFigure == [None |-> TRUE]

\* the bar drawn for the task at 0-based index idx, with its texts; text is
\* the duration written inside for a task of 5 minutes or more
FigureBar(task, idx) ==
    LET task_name == Get(task, "name", <<"T", "a", "c", "h", "e", " ">> \o Str(idx))
        bar_width == Get(task, "duration", 1)
        duration_min == Get(task, "duration", 0)
    IN  [y |-> idx,
         left |-> Strptime(Get(task, "start", Strftime(now))),
         width |-> bar_width,
         label |-> <<" ">> \o Get(task, "id", Str(idx + 1)) \o <<".", " ">>
                   \o (IF Len(task_name) > 40
                       THEN Take(task_name, 40) \o <<".", ".", ".">>
                       ELSE task_name),
         text |-> IF duration_min >= Minutes(5)
                  THEN FormatNumber(duration_min, duration_min % TicksPerMinute # 0)
                       \o <<" ", "m", "i", "n">>
                  ELSE <<>>]

\* the arrows drawn into the task at 0-based index idx: one for every
\* predecessor that is in task_id_to_index, from the row of the last task of
\* that id.  The head (xy) is at the start of the task on its row, the tail
\* (xytext) at task_start_time - 0.001 on the row of the predecessor: 0.001
\* day is 36/25 of a minute, so the tail is a number of 25ths of a tick
FigureArrows(tasks, idx) ==
    LET known == SelectSeq(Get(tasks[idx + 1], "predecessors", <<>>),
                           LAMBDA pred : IndicesOf(tasks, pred) # {})
        task_start_time == Strptime(Get(tasks[idx + 1], "start", Strftime(now)))
    IN  [k \in DOMAIN known |->
            [from |-> LastIndexOf(tasks, known[k]),
             tail |-> <<25 * task_start_time - 36 * TicksPerMinute, 25>>,
             to |-> idx,
             at |-> task_start_time]]

\* the figure is drawn whether or not matplotlib is there
VisualizeGanttUnguarded(data, title, has_matplotlib) ==
    LET tasks == Get(data, "tasks", <<>>)
    IN  IF tasks = <<>> THEN NoFigure
        ELSE [title |-> title,
              bars |-> [k \in DOMAIN tasks |-> FigureBar(tasks[k], k - 1)],
              arrows |-> [k \in DOMAIN tasks |-> FigureArrows(tasks, k - 1)],
              legend |-> TotalDuration(tasks)]

\* visualize_gantt: None without matplotlib or without tasks
VisualizeGantt(data, title, has_matplotlib) ==
    LET tasks == Get(data, "tasks", <<>>)
    IN  IF ~has_matplotlib THEN NoFigure
        ELSE IF tasks = <<>> THEN NoFigure
        ELSE [title |-> title,
              bars |-> [k \in DOMAIN tasks |-> FigureBar(tasks[k], k - 1)],
              arrows |-> [k \in DOMAIN tasks |-> FigureArrows(tasks, k - 1)],
              legend |-> TotalDuration(tasks)]

-----------------------------------------------------------------------------
(* The variables of the threads, the files and the devices while a          *)
(* specification leaves them alone.                                          *)

NoFiles ==
    /\ clock = 0
    /\ gantt_charts = <<>>
    /\ filename = None
    /\ previous = <<>>

NoTimers ==
    /\ timer = [active_timers |-> <<>>, timer_count |-> 0,
                timer_expired_callbacks |-> <<>>, running |-> FALSE]
    /\ monitor = [pc |-> "not started"]
    /\ console = <<>>

NoInput ==
    /\ next_button_event = FALSE
    /\ input_threads = <<>>
    /\ user_input = None

NoPolling ==
    /\ hardware = [is_raspi |-> FALSE]
    /\ gpio = <<>>
    /\ poll = [pc |-> "not started"]
    /\ calls = <<>>

NoThreads ==
    /\ NoFiles
    /\ NoTimers
    /\ button = [pc |-> "idle"]
    /\ NoInput
    /\ NoPolling
    /\ result = None
    /\ executed = <<>>

-----------------------------------------------------------------------------
(* The file name of a plan: lines 477-479 of _save_gantt_chart.  The clock  *)
(* is counted from 10:00:00 and stays within that minute.                    *)

\* the characters for which str.isalnum is true, among those of the model
Alnum ==
    {"a", "b", "c", "d", "e", "f", "g", "h", "i", "j", "k", "l", "m", "n", "o", "p",
     "q", "r", "s", "t", "u", "v", "w", "x", "y", "z", "A", "B", "C", "D", "E", "F",
     "G", "H", "I", "J", "K", "L", "M", "N", "O", "P", "Q", "R", "S", "T", "U", "V",
     "W", "X", "Y", "Z", "0", "1", "2", "3", "4", "5", "6", "7", "8", "9"}

\* "".join([c if c.isalnum() else "_" for c in recipe_name])
SafeName(name) == [k \in DOMAIN name |-> IF name[k] \in Alnum THEN name[k] ELSE "_"]

\* %S
TwoDigits(n) == IF n < 10 THEN <<"0">> \o Str(n) ELSE Str(n)

\* the timestamp cut to the minute
TimestampToMinute(t) == <<"1", "0", "0", "0">>

\* datetime.now().strftime("%Y%m%d_%H%M%S") at clock t, without the date
Timestamp(t) == <<"1", "0", "0", "0">> \o TwoDigits((t \div TicksPerSecond) % 60)

\* f"{gantt_dir}/{safe_name}_{timestamp}.json", without the directory
Filename(name, t) ==
    SafeName(name) \o <<"_">> \o Timestamp(t) \o <<".", "j", "s", "o", "n">>

\* open(filename, "w") and json.dump: the file is created or replaced
WriteFile(directory, name, file) ==
    [f \in DOMAIN directory \cup {name} |-> IF f = name THEN file ELSE directory[f]]

-----------------------------------------------------------------------------
(* CookingAssistant._save_gantt_chart and GanttVisualizer.process_gantt_file *)

\* f"Diagramme de Gantt: {recipe_name}"
ChartTitle(name) ==
    <<"D", "i", "a", "g", "r", "a", "m", "m", "e", " ", "d", "e", " ", "G", "a", "n",
      "t", "t", ":", " ">> \o name

\* the file is written, then process_gantt_file loads it back, renders it as
\* text on a terminal of the width the console reports and, where matplotlib
\* is there, as a figure; nothing fails
SaveGanttChart ==
    /\ pc = "generated"
    /\ json_file' = JsonDump(gantt_data)
    /\ filename' = Filename(recipe_name, clock)
    /\ gantt_charts' = WriteFile(gantt_charts, filename',
                                 [content |-> json_file', mtime |-> clock])
    /\ loaded_data' = LoadGanttData(json_file')
    /\ \E columns \in TerminalColumns :
          ascii_gantt' = CreateAsciiGantt(loaded_data', ChartTitle(recipe_name),
                                          Min(columns, MaxTerminalWidth))
    /\ ascii_file' = ascii_gantt'
    /\ fig' = IF HAS_MATPLOTLIB
              THEN VisualizeGantt(loaded_data', ChartTitle(recipe_name), HAS_MATPLOTLIB)
              ELSE fig
    /\ png_file' = IF HAS_MATPLOTLIB /\ fig' # NoFigure THEN fig' ELSE png_file
    /\ pc' = "saved"
    /\ UNCHANGED <<steps_data, recipe_name, now, i, start_time, gantt_data, run,
                   other_steps, first_plan, exception, session, clock, previous,
                   timers, button, input, polling, result, executed>>

\* os.makedirs, open or json.dump raises (lines 470-483, outside the try):
\* the exception leaves confirm_recipe and run, whose finally block says
\* goodbye
SaveGanttChartWriteFails ==
    /\ pc = "generated"
    /\ exception' = "write"
    /\ pc' = "terminated"
    /\ UNCHANGED <<steps_data, recipe_name, now, i, start_time, gantt_data, json_file,
                   loaded_data, ascii_gantt, run, other_steps, first_plan, ascii_file,
                   fig, png_file, session, threads>>

\* create_ascii_gantt or save_ascii_gantt raises: process_gantt_file is left
\* at once, _save_gantt_chart catches the exception (lines 486-490)
SaveGanttChartTextFails ==
    /\ pc = "generated"
    /\ json_file' = JsonDump(gantt_data)
    /\ filename' = Filename(recipe_name, clock)
    /\ gantt_charts' = WriteFile(gantt_charts, filename',
                                 [content |-> json_file', mtime |-> clock])
    /\ loaded_data' = LoadGanttData(json_file')
    /\ exception' = "text"
    /\ pc' = "saved"
    /\ UNCHANGED <<steps_data, recipe_name, now, i, start_time, gantt_data, ascii_gantt,
                   run, other_steps, first_plan, ascii_file, fig, png_file, session, clock, previous,
                   timers, button, input, polling, result, executed>>

\* the text chart is rendered and saved, then visualize_gantt raises (fig is
\* not assigned) or save_gantt_visualization does (fig is): process_gantt_file
\* is left, _save_gantt_chart catches the exception
SaveGanttChartRasterFails ==
    /\ pc = "generated"
    /\ HAS_MATPLOTLIB
    /\ gantt_data.tasks # <<>>
    /\ json_file' = JsonDump(gantt_data)
    /\ filename' = Filename(recipe_name, clock)
    /\ gantt_charts' = WriteFile(gantt_charts, filename',
                                 [content |-> json_file', mtime |-> clock])
    /\ loaded_data' = LoadGanttData(json_file')
    /\ \E columns \in TerminalColumns :
          ascii_gantt' = CreateAsciiGantt(loaded_data', ChartTitle(recipe_name),
                                          Min(columns, MaxTerminalWidth))
    /\ ascii_file' = ascii_gantt'
    /\ fig' \in {fig, VisualizeGantt(loaded_data', ChartTitle(recipe_name),
                                     HAS_MATPLOTLIB)}
    /\ exception' = "raster"
    /\ pc' = "saved"
    /\ UNCHANGED <<steps_data, recipe_name, now, i, start_time, gantt_data, run,
                   other_steps, first_plan, png_file, session, clock, previous,
                   timers, button, input, polling, result, executed>>

\* confirm_recipe displays the plan and returns True; run() moves on to
\* COOKING_GUIDANCE
ConfirmReturn ==
    /\ pc = "saved"
    /\ pc' = "cooking_guidance"
    /\ state_machine' = TransitionTo(state_machine, "cooking_guidance")
    /\ UNCHANGED <<steps_data, recipe_name, now, i, start_time, gantt_data, json_file,
                   loaded_data, ascii_gantt, run, other_steps, first_plan, artifacts,
                   HAS_MATPLOTLIB, task_duration, bar, threads>>

-----------------------------------------------------------------------------
(* One recipe confirmation *)

NoPlan == [steps_data |-> <<>>, now |-> 0, gantt_data |-> EmptyGantt]

Init ==
    /\ pc = "confirm_recipe"
    /\ steps_data \in StepLists
    /\ recipe_name \in RecipeNames
    /\ now \in Instants
    /\ i = 0
    /\ start_time = 0
    /\ gantt_data = EmptyGantt
    /\ json_file = <<>>
    /\ loaded_data = EmptyGantt
    /\ ascii_gantt = <<>>
    /\ run = 1
    /\ other_steps = <<>>
    /\ first_plan = NoPlan
    /\ HAS_MATPLOTLIB = FALSE
    /\ ascii_file = <<>>
    /\ fig = NoFigure
    /\ png_file = NoFigure
    /\ exception = "none"
    /\ state_machine = AtFirstConfirmation(steps_data, recipe_name)
    /\ task_duration = <<0, 1>>
    /\ bar = <<>>
    /\ NoThreads

Next ==
    \/ GenerateEnter
    \/ GenerateStep
    \/ GenerateReturn
    \/ SaveGanttChart
    \/ ConfirmReturn

Spec == Init /\ [][Next]_vars

-----------------------------------------------------------------------------
(* Plan construction called again in the same session: for the same recipe, *)
(* or for another recipe and then for the first one again.                   *)

InitRerun ==
    /\ pc = "confirm_recipe"
    /\ steps_data \in StepLists
    /\ recipe_name \in RecipeNames
    /\ now \in Instants
    /\ i = 0
    /\ start_time = 0
    /\ gantt_data = EmptyGantt
    /\ json_file = <<>>
    /\ loaded_data = EmptyGantt
    /\ ascii_gantt = <<>>
    /\ run = 1
    /\ other_steps \in OtherStepLists
    /\ first_plan = NoPlan
    /\ HAS_MATPLOTLIB = FALSE
    /\ ascii_file = <<>>
    /\ fig = NoFigure
    /\ png_file = NoFigure
    /\ exception = "none"
    /\ state_machine = AtFirstConfirmation(steps_data, recipe_name)
    /\ task_duration = <<0, 1>>
    /\ bar = <<>>
    /\ NoThreads

\* the next confirmation is for the other recipe, at whatever time it is then
ConfirmOther ==
    /\ pc = "generated"
    /\ run = 1
    /\ run' = run + 1
    /\ steps_data' = other_steps
    /\ other_steps' = steps_data
    /\ now' \in Instants
    /\ pc' = "confirm_recipe"
    /\ UNCHANGED <<recipe_name, i, start_time, gantt_data, json_file, loaded_data,
                   ascii_gantt, first_plan,
                   artifacts, session, threads>>

\* the next confirmation is for the first recipe again, the clock reading what
\* it read at the first call: right after the first call, or after the call
\* for the other recipe
ConfirmFirstAgain ==
    /\ pc = "generated"
    /\ \/ run = 1
       \/ run = 2 /\ other_steps = first_plan.steps_data
    /\ run' = run + 1
    /\ steps_data' = first_plan.steps_data
    /\ other_steps' = IF run = 1 THEN other_steps ELSE steps_data
    /\ now' = first_plan.now
    /\ pc' = "confirm_recipe"
    /\ UNCHANGED <<recipe_name, i, start_time, gantt_data, json_file, loaded_data,
                   ascii_gantt, first_plan,
                   artifacts, session, threads>>

NextRerun ==
    \/ GenerateEnter
    \/ GenerateStep
    \/ GenerateReturn
    \/ ConfirmOther
    \/ ConfirmFirstAgain

SpecRerun == InitRerun /\ [][NextRerun]_vars

-----------------------------------------------------------------------------
(* One recipe confirmation for steps at the edges of what the recipe source *)
(* may hand over: durations of zero or less, descriptions as long as the    *)
(* label field of the text chart or longer.                                  *)

InitExtremes ==
    /\ pc = "confirm_recipe"
    /\ steps_data \in ExtremeStepLists
    /\ recipe_name \in RecipeNames
    /\ now \in Instants
    /\ i = 0
    /\ start_time = 0
    /\ gantt_data = EmptyGantt
    /\ json_file = <<>>
    /\ loaded_data = EmptyGantt
    /\ ascii_gantt = <<>>
    /\ run = 1
    /\ other_steps = <<>>
    /\ first_plan = NoPlan
    /\ HAS_MATPLOTLIB = FALSE
    /\ ascii_file = <<>>
    /\ fig = NoFigure
    /\ png_file = NoFigure
    /\ exception = "none"
    /\ state_machine = AtFirstConfirmation(steps_data, recipe_name)
    /\ task_duration = <<0, 1>>
    /\ bar = <<>>
    /\ NoThreads

SpecExtremes == InitExtremes /\ [][Next]_vars

-----------------------------------------------------------------------------
(* One recipe confirmation with matplotlib there or not, where writing the  *)
(* file or rendering may fail, and where the visualizer is called again on  *)
(* the plan that was saved.                                                  *)

SaveStepLists == UNION {[1..n -> {StepBare, StepB, StepLong}] : n \in 0..MaxSteps}

InitSave ==
    /\ pc = "confirm_recipe"
    /\ steps_data \in SaveStepLists
    /\ recipe_name \in RecipeNames
    /\ now \in Instants
    /\ i = 0
    /\ start_time = 0
    /\ gantt_data = EmptyGantt
    /\ json_file = <<>>
    /\ loaded_data = EmptyGantt
    /\ ascii_gantt = <<>>
    /\ run = 1
    /\ other_steps = <<>>
    /\ first_plan = NoPlan
    /\ HAS_MATPLOTLIB \in BOOLEAN
    /\ ascii_file = <<>>
    /\ fig = NoFigure
    /\ png_file = NoFigure
    /\ exception = "none"
    /\ state_machine = AtFirstConfirmation(steps_data, recipe_name)
    /\ task_duration = <<0, 1>>
    /\ bar = <<>>
    /\ NoThreads

\* the text chart is rendered from the loaded plan and the cut labels are
\* stored back as the names of its tasks
CreateAsciiGanttCallInPlace ==
    /\ pc = "saved"
    /\ \E columns \in TerminalColumns :
          ascii_gantt' = CreateAsciiGantt(loaded_data, ChartTitle(recipe_name),
                                          Min(columns, MaxTerminalWidth))
    /\ loaded_data' =
          [loaded_data EXCEPT !.tasks =
              [k \in DOMAIN @ |-> [@[k] EXCEPT !.name = Label(@)]]]
    /\ UNCHANGED <<pc, steps_data, recipe_name, now, i, start_time, gantt_data,
                   json_file, run, other_steps, first_plan, artifacts, session, threads>>

\* create_ascii_gantt called on the loaded plan: it reads the plan, writes
\* only its own ascii_output, task_positions and task_dependencies
CreateAsciiGanttCall ==
    /\ pc = "saved"
    /\ \E columns \in TerminalColumns :
          ascii_gantt' = CreateAsciiGantt(loaded_data, ChartTitle(recipe_name),
                                          Min(columns, MaxTerminalWidth))
    /\ UNCHANGED <<pc, steps_data, recipe_name, now, i, start_time, gantt_data,
                   json_file, loaded_data, run, other_steps, first_plan, artifacts,
                   session, threads>>

\* visualize_gantt called on the loaded plan
VisualizeGanttCall ==
    /\ pc = "saved"
    /\ fig' = VisualizeGantt(loaded_data, ChartTitle(recipe_name), HAS_MATPLOTLIB)
    /\ UNCHANGED <<pc, steps_data, recipe_name, now, i, start_time, gantt_data,
                   json_file, loaded_data, ascii_gantt, run, other_steps, first_plan,
                   ascii_file, png_file, exception, session, threads>>

\* process_gantt_file called on the file that was written
ProcessGanttFileCall ==
    /\ pc = "saved"
    /\ loaded_data' = LoadGanttData(json_file)
    /\ \E columns \in TerminalColumns :
          ascii_gantt' = CreateAsciiGantt(loaded_data', ChartTitle(recipe_name),
                                          Min(columns, MaxTerminalWidth))
    /\ ascii_file' = ascii_gantt'
    /\ fig' = IF HAS_MATPLOTLIB
              THEN VisualizeGantt(loaded_data', ChartTitle(recipe_name), HAS_MATPLOTLIB)
              ELSE fig
    /\ png_file' = IF HAS_MATPLOTLIB /\ fig' # NoFigure THEN fig' ELSE png_file
    /\ UNCHANGED <<pc, steps_data, recipe_name, now, i, start_time, gantt_data,
                   json_file, run, other_steps, first_plan, exception, session, threads>>

NextSave ==
    \/ GenerateEnter
    \/ GenerateStep
    \/ GenerateReturn
    \/ SaveGanttChart
    \/ SaveGanttChartWriteFails
    \/ SaveGanttChartTextFails
    \/ SaveGanttChartRasterFails
    \/ ConfirmReturn
    \/ CreateAsciiGanttCall
    \/ VisualizeGanttCall
    \/ ProcessGanttFileCall

SpecSave == InitSave /\ [][NextSave]_vars

-----------------------------------------------------------------------------
(* One recipe confirmation with matplotlib there, for step lists in which   *)
(* dependencies resolve, do not resolve, or resolve to an id that two steps *)
(* have.                                                                     *)

EdgeStepLists == UNION {[1..n -> {StepA, StepB, StepNoId}] : n \in 0..MaxSteps}

InitEdges ==
    /\ pc = "confirm_recipe"
    /\ steps_data \in EdgeStepLists
    /\ recipe_name \in RecipeNames
    /\ now \in Instants
    /\ i = 0
    /\ start_time = 0
    /\ gantt_data = EmptyGantt
    /\ json_file = <<>>
    /\ loaded_data = EmptyGantt
    /\ ascii_gantt = <<>>
    /\ run = 1
    /\ other_steps = <<>>
    /\ first_plan = NoPlan
    /\ HAS_MATPLOTLIB = TRUE
    /\ ascii_file = <<>>
    /\ fig = NoFigure
    /\ png_file = NoFigure
    /\ exception = "none"
    /\ state_machine = AtFirstConfirmation(steps_data, recipe_name)
    /\ task_duration = <<0, 1>>
    /\ bar = <<>>
    /\ NoThreads

SpecEdges == InitEdges /\ [][NextSave]_vars

-----------------------------------------------------------------------------
(* Plan after plan confirmed and saved while the clock goes on, for recipe  *)
(* names that are the same or differ.                                        *)

FileStepLists == {<<>>, <<StepA>>, <<StepBare, StepB>>}

FileRecipeNames == {<<"S", "o", "u", "p">>, <<"F", "l", "a", "n">>}

InitFiles ==
    /\ pc = "confirm_recipe"
    /\ steps_data \in FileStepLists
    /\ recipe_name \in FileRecipeNames
    /\ now = TicksPerMinute
    /\ i = 0
    /\ start_time = 0
    /\ gantt_data = EmptyGantt
    /\ json_file = <<>>
    /\ loaded_data = EmptyGantt
    /\ ascii_gantt = <<>>
    /\ run = 1
    /\ other_steps = <<>>
    /\ first_plan = NoPlan
    /\ HAS_MATPLOTLIB = FALSE
    /\ ascii_file = <<>>
    /\ fig = NoFigure
    /\ png_file = NoFigure
    /\ exception = "none"
    /\ state_machine = AtFirstConfirmation(steps_data, recipe_name)
    /\ task_duration = <<0, 1>>
    /\ bar = <<>>
    /\ NoThreads

\* time passes
Tick ==
    /\ clock < MaxClock
    /\ clock' = clock + 1
    /\ UNCHANGED <<pc, plan, artifacts, session, gantt_charts, filename, previous,
                   timers, button, input, polling, result, executed>>

\* the next recipe is confirmed; the save that was just made, or one made
\* before it, is the one kept for comparison
ConfirmNext ==
    /\ pc = "saved"
    /\ run < MaxSaves
    /\ run' = run + 1
    /\ steps_data' \in FileStepLists
    /\ recipe_name' \in FileRecipeNames
    /\ state_machine' = StoreRecipe(state_machine, steps_data', recipe_name')
    /\ previous' \in {previous,
                      <<[recipe_name |-> recipe_name, filename |-> filename,
                         file |-> gantt_charts[filename]]>>}
    /\ pc' = "confirm_recipe"
    /\ UNCHANGED <<now, i, start_time, gantt_data, json_file, loaded_data, ascii_gantt,
                   other_steps, first_plan, artifacts, HAS_MATPLOTLIB, task_duration,
                   bar, clock, gantt_charts, filename, timers, button, input, polling,
                   result, executed>>

NextFiles ==
    \/ GenerateEnter
    \/ GenerateStep
    \/ GenerateReturn
    \/ SaveGanttChart
    \/ ConfirmNext
    \/ Tick

SpecFiles == InitFiles /\ [][NextFiles]_vars

-----------------------------------------------------------------------------
(* timer.py: CookingTimer, the thread that runs _monitor_timers, and the    *)
(* Back button of cooking_assistant.py, whose handler runs in the thread    *)
(* that polls the buttons.  A time is a number of ticks of the clock.       *)

\* every variable of a confirmation, while no recipe is being confirmed
NoConfirmation ==
    /\ steps_data = <<StepA, StepB>>
    /\ recipe_name \in RecipeNames
    /\ now = TicksPerMinute
    /\ i = 0
    /\ start_time = 0
    /\ gantt_data = EmptyGantt
    /\ json_file = <<>>
    /\ loaded_data = EmptyGantt
    /\ ascii_gantt = <<>>
    /\ run = 1
    /\ other_steps = <<>>
    /\ first_plan = NoPlan
    /\ HAS_MATPLOTLIB = FALSE
    /\ ascii_file = <<>>
    /\ fig = NoFigure
    /\ png_file = NoFigure
    /\ exception = "none"
    /\ task_duration = <<0, 1>>
    /\ bar = <<>>

\* list(d.items()) of a dict whose keys were inserted in increasing order
Items(d) ==
    [k \in 1..Cardinality(DOMAIN d) |->
        LET key == CHOOSE x \in DOMAIN d : Cardinality({y \in DOMAIN d : y < x}) = k - 1
        IN  <<key, d[key]>>]

\* del d[key]
Del(d, key) == [x \in DOMAIN d \ {key} |-> d[x]]

\* the keys of get_active_timers() at time t: the timers of which a whole
\* second or more remains (remaining is max(0, int(seconds)))
GetActiveTimers(obj, t) ==
    {timer_id \in DOMAIN obj.active_timers :
        obj.active_timers[timer_id].end_time - t >= TicksPerSecond}

\* the timers the user may ask for, in seconds
TimerDurations == {1}

\* what a callback does when it is called
CallbackBehaviours == {"returns", "raises"}

InitTimer ==
    /\ pc = "execute_current_step"
    /\ NoConfirmation
    /\ state_machine =
          TransitionTo(AtFirstConfirmation(steps_data, recipe_name), "step_execution")
    /\ NoFiles
    /\ timer = [active_timers |-> <<>>, timer_count |-> 0,
                timer_expired_callbacks |-> <<>>, running |-> TRUE]
    /\ monitor = [pc |-> "while", expired_timers |-> {}, current_time |-> 0,
                  items |-> <<>>, wake |-> 0]
    /\ console = <<>>
    /\ button = [pc |-> "idle"]
    /\ NoInput
    /\ NoPolling
    /\ result = None
    /\ executed = <<>>

\* execute_current_step, the command timer <duration>: start_timer
StartTimer ==
    /\ pc = "execute_current_step"
    /\ timer.timer_count < MaxTimers
    /\ \E duration_seconds \in TimerDurations :
          LET timer_id == timer.timer_count + 1
          IN  timer' = [timer EXCEPT
                  !.timer_count = timer_id,
                  !.active_timers =
                      SetAttr(@, timer_id,
                              [duration |-> duration_seconds,
                               end_time |-> clock + duration_seconds * TicksPerSecond])]
    /\ UNCHANGED <<pc, plan, artifacts, session, files, monitor, console, button, input,
                   polling, result, executed>>

\* register_expired_callback for a timer that has none
RegisterExpiredCallback ==
    /\ pc = "execute_current_step"
    /\ \E timer_id \in DOMAIN timer.active_timers \ DOMAIN timer.timer_expired_callbacks,
          callback \in CallbackBehaviours :
          timer' = [timer EXCEPT !.timer_expired_callbacks = SetAttr(@, timer_id, callback)]
    /\ UNCHANGED <<pc, plan, artifacts, session, files, monitor, console, button, input,
                   polling, result, executed>>

\* _monitor_timers, lines 116-120: the clock is read and the timers are
\* listed, once the sleep of the round before is over
MonitorRead ==
    /\ monitor.pc = "while"
    /\ timer.running
    /\ clock >= monitor.wake
    /\ monitor' = [monitor EXCEPT !.pc = "for",
                                  !.current_time = clock,
                                  !.items = Items(timer.active_timers)]
    /\ UNCHANGED <<pc, plan, artifacts, session, files, timer, console, button, input,
                   polling, result, executed>>

\* _monitor_timers, lines 120-137, for the next timer of the list: a timer
\* that is marked is passed over; for one whose end has come the line is
\* printed, its callback is called if it has one, and it is marked, unless
\* the callback raised
MonitorCheck ==
    /\ monitor.pc = "for"
    /\ monitor.items # <<>>
    /\ LET timer_id == Head(monitor.items)[1]
           end_time == Head(monitor.items)[2].end_time
           expired == /\ timer_id \notin monitor.expired_timers
                      /\ monitor.current_time >= end_time
           called == expired /\ timer_id \in DOMAIN timer.timer_expired_callbacks
           raised == called /\ timer.timer_expired_callbacks[timer_id] = "raises"
       IN  /\ console' =
                 console
                 \o (IF expired
                     THEN <<[event |-> "TIMER EXPIRED", timer_id |-> timer_id]>>
                     ELSE <<>>)
                 \o (IF called
                     THEN <<[event |-> "callback", timer_id |-> timer_id]>>
                     ELSE <<>>)
           /\ monitor' =
                 [monitor EXCEPT
                     !.items = Tail(@),
                     !.expired_timers = IF expired /\ ~raised
                                        THEN @ \cup {timer_id} ELSE @]
    /\ UNCHANGED <<pc, plan, artifacts, session, files, timer, button, input, polling,
                   result, executed>>

\* _monitor_timers, lines 139-153, at the end of the list: time.sleep(0.5).
\* The countdown lines are not kept in console.
MonitorSleep ==
    /\ monitor.pc = "for"
    /\ monitor.items = <<>>
    /\ monitor' = [monitor EXCEPT !.pc = "while",
                                  !.wake = clock + (TicksPerSecond + 1) \div 2]
    /\ UNCHANGED <<pc, plan, artifacts, session, files, timer, console, button, input,
                   polling, result, executed>>

\* _button_back, lines 319-325: the state is read; in a state that is
\* neither of the two the handler returns at once
ButtonBackPressed ==
    /\ button.pc = "idle"
    /\ state_machine.current_state \in {"recipe_confirmation", "step_execution"}
    /\ button' =
          IF state_machine.current_state = "recipe_confirmation"
          THEN [pc |-> "transition_to"]
          ELSE [pc |-> "get_active_timers"]
    /\ UNCHANGED <<pc, plan, artifacts, session, files, timers, input, polling, result,
                   executed>>

\* _button_back, line 324
ButtonBackTransition ==
    /\ button.pc = "transition_to"
    /\ state_machine' = TransitionTo(state_machine, "recipe_proposal")
    /\ button' = [pc |-> "idle"]
    /\ UNCHANGED <<pc, plan, artifacts, HAS_MATPLOTLIB, task_duration, bar, files,
                   timers, input, polling, result, executed>>

\* _button_back, lines 327-329: the first of the active timers is chosen
ButtonBackGetTimers ==
    /\ button.pc = "get_active_timers"
    /\ LET active_timers == GetActiveTimers(timer, clock)
       IN  button' =
               IF active_timers # {}
               THEN [pc |-> "stop_timer",
                     timer_id |-> CHOOSE x \in active_timers :
                                     \A y \in active_timers : x <= y]
               ELSE [pc |-> "idle"]
    /\ UNCHANGED <<pc, plan, artifacts, session, files, timers, input, polling, result,
                   executed>>

\* _button_back, lines 330-331: stop_timer, which returns True for a timer
\* that is in active_timers, and the line that says so
ButtonBackStop ==
    /\ button.pc = "stop_timer"
    /\ timer' = IF button.timer_id \in DOMAIN timer.active_timers
                THEN [timer EXCEPT !.active_timers = Del(@, button.timer_id)]
                ELSE timer
    /\ console' = IF button.timer_id \in DOMAIN timer.active_timers
                  THEN Append(console, [event |-> "stopped", timer_id |-> button.timer_id])
                  ELSE console
    /\ button' = [pc |-> "idle"]
    /\ UNCHANGED <<pc, plan, artifacts, session, files, monitor, input, polling, result,
                   executed>>

NextTimer ==
    \/ StartTimer
    \/ RegisterExpiredCallback
    \/ MonitorRead
    \/ MonitorCheck
    \/ MonitorSleep
    \/ ButtonBackPressed
    \/ ButtonBackGetTimers
    \/ ButtonBackStop
    \/ Tick

SpecTimer == InitTimer /\ [][NextTimer]_vars

-----------------------------------------------------------------------------
(* CookingAssistant.run: the session of the main thread, from the           *)
(* collection of the ingredients through one recipe after the other, with   *)
(* the Back button pressed at any time.  pc is "run" at the top of the      *)
(* while loop.                                                               *)

SessionStepLists == {<<>>, <<StepA>>, <<StepBare, StepB>>, <<StepNoId, StepC>>}

\* what the user may type after the 0 that asks for more recipes
AdditionalPrompts == {<<>>, <<"v", "e", "g", "a", "n">>}

InitSession ==
    /\ pc = "run"
    /\ steps_data = <<>>
    /\ recipe_name \in RecipeNames
    /\ now \in Instants
    /\ i = 0
    /\ start_time = 0
    /\ gantt_data = EmptyGantt
    /\ json_file = <<>>
    /\ loaded_data = EmptyGantt
    /\ ascii_gantt = <<>>
    /\ run = 1
    /\ other_steps = <<>>
    /\ first_plan = NoPlan
    /\ HAS_MATPLOTLIB = FALSE
    /\ ascii_file = <<>>
    /\ fig = NoFigure
    /\ png_file = NoFigure
    /\ exception = "none"
    /\ state_machine = TransitionTo(StateMachineInit, "ingredient_collection")
    /\ task_duration = <<0, 1>>
    /\ bar = <<>>
    /\ NoThreads

\* INGREDIENT_COLLECTION: collect_ingredients with at least one ingredient
\* typed (with none the state is left as it is)
CollectIngredients ==
    /\ pc = "run"
    /\ state_machine.current_state = "ingredient_collection"
    /\ state_machine' =
          TransitionTo([state_machine EXCEPT !.ingredients = @ \o IngredientsTyped],
                       "recipe_proposal")
    /\ UNCHANGED <<pc, steps_data, recipe_name, now, i, start_time, gantt_data,
                   json_file, loaded_data, ascii_gantt, run, other_steps, first_plan,
                   artifacts, HAS_MATPLOTLIB, task_duration, bar, threads>>

\* RECIPE_PROPOSAL: propose_recipes
ProposeRecipes ==
    /\ pc = "run"
    /\ state_machine.current_state = "recipe_proposal"
    /\ state_machine' =
          TransitionTo([state_machine EXCEPT !.additional_recipe_request = None,
                                             !.proposed_recipes = RecipesProposed],
                       "recipe_confirmation")
    /\ UNCHANGED <<pc, steps_data, recipe_name, now, i, start_time, gantt_data,
                   json_file, loaded_data, ascii_gantt, run, other_steps, first_plan,
                   artifacts, HAS_MATPLOTLIB, task_duration, bar, threads>>

\* RECIPE_CONFIRMATION: confirm_recipe when the choice starts with 0
ConfirmRecipeMore ==
    /\ pc = "run"
    /\ state_machine.current_state = "recipe_confirmation"
    /\ \E additional_prompt \in AdditionalPrompts :
          state_machine' =
              IF additional_prompt # <<>>
              THEN [TransitionTo(state_machine, "recipe_proposal")
                        EXCEPT !.additional_recipe_request = additional_prompt]
              ELSE TransitionTo(state_machine, "recipe_proposal")
    /\ UNCHANGED <<pc, steps_data, recipe_name, now, i, start_time, gantt_data,
                   json_file, loaded_data, ascii_gantt, run, other_steps, first_plan,
                   artifacts, HAS_MATPLOTLIB, task_duration, bar, threads>>

\* RECIPE_CONFIRMATION: confirm_recipe for a recipe that is chosen, up to the
\* call of _generate_gantt_chart; the locals of the calls before are gone and
\* the files of this confirmation are not written yet
ConfirmRecipe ==
    /\ pc = "run"
    /\ state_machine.current_state = "recipe_confirmation"
    /\ steps_data' \in SessionStepLists
    /\ recipe_name' \in RecipeNames
    /\ now' \in Instants
    /\ state_machine' = StoreRecipe(state_machine, steps_data', recipe_name')
    /\ i' = 0
    /\ start_time' = 0
    /\ gantt_data' = EmptyGantt
    /\ json_file' = <<>>
    /\ loaded_data' = EmptyGantt
    /\ ascii_gantt' = <<>>
    /\ ascii_file' = <<>>
    /\ fig' = NoFigure
    /\ png_file' = NoFigure
    /\ pc' = "confirm_recipe"
    /\ executed' = <<>>
    /\ UNCHANGED <<run, other_steps, first_plan, exception, HAS_MATPLOTLIB,
                   task_duration, bar, files, timers, button,
                   input, polling, result>>

\* COOKING_GUIDANCE: display_cooking_steps
CookingGuidance ==
    /\ pc = "cooking_guidance"
    /\ state_machine' = TransitionTo(state_machine, "step_execution")
    /\ pc' = "run"
    /\ UNCHANGED <<steps_data, recipe_name, now, i, start_time, gantt_data, json_file,
                   loaded_data, ascii_gantt, run, other_steps, first_plan, artifacts,
                   HAS_MATPLOTLIB, task_duration, bar, threads>>

\* "if not current_step" in execute_current_step: there is no step at
\* current_step, or its text is empty
NoCurrentStep(obj) == GetCurrentStep(obj) = None \/ GetCurrentStep(obj) = <<>>

\* STEP_EXECUTION: execute_current_step returns True (next is typed or the
\* Next button is pressed)
ExecuteStepNext ==
    /\ pc = "run"
    /\ state_machine.current_state = "step_execution"
    /\ ~NoCurrentStep(state_machine)
    /\ state_machine' =
          IF IsCookingComplete(state_machine)
          THEN TransitionTo(state_machine, "completed")
          ELSE NextStep(state_machine)
    /\ executed' = Append(executed, state_machine.current_step)
    /\ UNCHANGED <<pc, steps_data, recipe_name, now, i, start_time, gantt_data,
                   json_file, loaded_data, ascii_gantt, run, other_steps, first_plan,
                   artifacts, HAS_MATPLOTLIB, task_duration, bar, files, timers, button,
                   input, polling, result>>

\* STEP_EXECUTION: execute_current_step returns False (there is no current
\* step, or quit is typed) and the loop is left
ExecuteStepQuit ==
    /\ pc = "run"
    /\ state_machine.current_state = "step_execution"
    /\ pc' = "terminated"
    /\ UNCHANGED <<steps_data, recipe_name, now, i, start_time, gantt_data, json_file,
                   loaded_data, ascii_gantt, run, other_steps, first_plan, artifacts,
                   session, threads>>

\* COMPLETED: the user answers yes
Restart ==
    /\ pc = "run"
    /\ state_machine.current_state = "completed"
    /\ state_machine' = TransitionTo(Reset(state_machine), "ingredient_collection")
    /\ UNCHANGED <<pc, steps_data, recipe_name, now, i, start_time, gantt_data,
                   json_file, loaded_data, ascii_gantt, run, other_steps, first_plan,
                   artifacts, HAS_MATPLOTLIB, task_duration, bar, threads>>

\* COMPLETED: the user answers no
Finish ==
    /\ pc = "run"
    /\ state_machine.current_state = "completed"
    /\ pc' = "terminated"
    /\ UNCHANGED <<steps_data, recipe_name, now, i, start_time, gantt_data, json_file,
                   loaded_data, ascii_gantt, run, other_steps, first_plan, artifacts,
                   session, threads>>

NextSession ==
    \/ CollectIngredients
    \/ ProposeRecipes
    \/ ConfirmRecipeMore
    \/ ConfirmRecipe
    \/ GenerateEnter
    \/ GenerateStep
    \/ GenerateReturn
    \/ SaveGanttChart
    \/ ConfirmReturn
    \/ CookingGuidance
    \/ ExecuteStepNext
    \/ ExecuteStepQuit
    \/ Restart
    \/ Finish
    \/ ButtonBackPressed
    \/ ButtonBackTransition
    \/ ButtonBackGetTimers

SpecSession == InitSession /\ [][NextSession]_vars

-----------------------------------------------------------------------------
(* execute_current_step of cooking_assistant.py with its input threads and  *)
(* the Next button.  A thread of input_threads is the record of the step    *)
(* that was current when get_interruptible_input started it (step), of the  *)
(* line Prompt.ask returned to it (value, None while it waits: the thread   *)
(* ends as it stores the line), of the step that was current when that line *)
(* was typed (typed_at, a key the record has once the line is there) and of *)
(* whether it is the thread whose read of the standard input is under way   *)
(* (reads): a second thread that calls Prompt.ask waits until the read of   *)
(* the first has returned.                                                   *)

\* the lines the user may type, stripped and in lower case
Lines == {<<"n", "e", "x", "t">>, <<"q", "u", "i", "t">>, <<"h", "e", "l", "p">>}

\* the threads of input_threads that wait in Prompt.ask
Waiting(threads_started) ==
    {k \in DOMAIN threads_started : threads_started[k].value = None}

InitInput ==
    /\ pc = "execute_current_step"
    /\ NoConfirmation
    /\ state_machine =
          TransitionTo(AtFirstConfirmation(steps_data, recipe_name), "step_execution")
    /\ NoFiles
    /\ NoTimers
    /\ button = [pc |-> "idle"]
    /\ NoInput
    /\ NoPolling
    /\ result = None
    /\ executed = <<>>

\* run(), line 360, and execute_current_step, lines 201-221: there is a
\* current step, which is shown, and the event of the Next button is cleared
ExecuteEnter ==
    /\ pc = "execute_current_step"
    /\ state_machine.current_state = "step_execution"
    /\ ~NoCurrentStep(state_machine)
    /\ next_button_event' = FALSE
    /\ pc' = "get_interruptible_input"
    /\ UNCHANGED <<plan, artifacts, session, files, timers, button, input_threads,
                   user_input, polling, result, executed>>

\* get_interruptible_input, lines 230-246: the input thread is started
StartInputThread ==
    /\ pc = "get_interruptible_input"
    /\ input_threads' =
          Append(input_threads,
                 [step |-> state_machine.current_step,
                  value |-> None,
                  reads |-> Waiting(input_threads) = {}])
    /\ pc' = "while"
    /\ UNCHANGED <<plan, artifacts, session, files, timers, button, next_button_event,
                   user_input, polling, result, executed>>

\* get_interruptible_input, lines 248-251: the thread is alive and the event
\* is set (while neither holds, the loop sleeps and tests again)
InputInterrupted ==
    /\ pc = "while"
    /\ input_threads[Len(input_threads)].value = None
    /\ next_button_event
    /\ next_button_event' = FALSE
    /\ user_input' = <<"n", "e", "x", "t">>
    /\ pc' = "user_input"
    /\ UNCHANGED <<plan, artifacts, session, files, timers, button, input_threads,
                   polling, result, executed>>

\* get_interruptible_input, lines 248 and 255: the thread has ended
InputReceived ==
    /\ pc = "while"
    /\ input_threads[Len(input_threads)].value # None
    /\ user_input' = input_threads[Len(input_threads)].value
    /\ pc' = "user_input"
    /\ UNCHANGED <<plan, artifacts, session, files, timers, button, next_button_event,
                   input_threads, polling, result, executed>>

\* execute_current_step, lines 260-261, and run(), lines 361-367
CommandNext ==
    /\ pc = "user_input"
    /\ user_input = <<"n", "e", "x", "t">>
    /\ state_machine' =
          IF IsCookingComplete(state_machine)
          THEN TransitionTo(state_machine, "completed")
          ELSE NextStep(state_machine)
    /\ executed' = Append(executed, state_machine.current_step)
    /\ pc' = IF IsCookingComplete(state_machine) THEN "run" ELSE "execute_current_step"
    /\ UNCHANGED <<plan, artifacts, HAS_MATPLOTLIB, task_duration, bar, files, timers,
                   button, input, polling, result>>

\* execute_current_step, lines 274-275, and run(), lines 368-369
CommandQuit ==
    /\ pc = "user_input"
    /\ user_input = <<"q", "u", "i", "t">>
    /\ pc' = "terminated"
    /\ UNCHANGED <<plan, artifacts, session, threads>>

\* execute_current_step, lines 276-277: an unknown command
CommandUnknown ==
    /\ pc = "user_input"
    /\ user_input \notin {<<"n", "e", "x", "t">>, <<"q", "u", "i", "t">>}
    /\ pc' = "get_interruptible_input"
    /\ UNCHANGED <<plan, artifacts, session, threads>>

\* _button_next, lines 295-302, in the thread that polls the buttons
ButtonNext ==
    /\ state_machine.current_state = "step_execution"
    /\ pc # "terminated"
    /\ ~next_button_event
    /\ next_button_event' = TRUE
    /\ UNCHANGED <<pc, plan, artifacts, session, files, timers, button, input_threads,
                   user_input, polling, result, executed>>

\* the user types a line: Prompt.ask returns it to the thread whose read is
\* under way, input_thread_func stores it (line 232) and the thread ends;
\* one of the threads that wait, if any, reads next
UserTypes ==
    /\ pc # "terminated"
    /\ Cardinality(DOMAIN input_threads \ Waiting(input_threads)) < MaxLines
    /\ \E line \in Lines, k \in Waiting(input_threads) :
          /\ input_threads[k].reads
          /\ \E next \in (IF Waiting(input_threads) = {k}
                          THEN {0}
                          ELSE Waiting(input_threads) \ {k}) :
                input_threads' =
                    [j \in DOMAIN input_threads |->
                        IF j = k
                        THEN SetAttr([input_threads[j] EXCEPT !.value = line,
                                                              !.reads = FALSE],
                                     "typed_at", state_machine.current_step)
                        ELSE IF j = next
                        THEN [input_threads[j] EXCEPT !.reads = TRUE]
                        ELSE input_threads[j]]
    /\ UNCHANGED <<pc, plan, artifacts, session, files, timers, button,
                   next_button_event, user_input, polling, result, executed>>

NextInput ==
    \/ ExecuteEnter
    \/ StartInputThread
    \/ InputInterrupted
    \/ InputReceived
    \/ CommandNext
    \/ CommandQuit
    \/ CommandUnknown
    \/ ButtonNext
    \/ UserTypes

SpecInput == InitInput /\ [][NextInput]_vars

-----------------------------------------------------------------------------
(* states.py: the methods of a StateMachine called one after the other, in  *)
(* any order and with any argument, on an object that was just constructed. *)
(* result is the record of the method that was called last and of the       *)
(* value it returned.                                                        *)

\* the lists of steps set_recipe_steps may be given
StepTextLists ==
    UNION {[1..n -> {<<"p", "e", "e", "l">>, <<"c", "h", "o", "p">>}] : n \in 0..MaxSteps}

\* the lists of recipes set_proposed_recipes may be given
RecipeLists == {<<>>, RecipesProposed}

\* the indices select_recipe may be given
RecipeIndices == -1..Len(RecipesProposed)

InitStateMachine ==
    /\ pc = "StateMachine"
    /\ NoConfirmation
    /\ state_machine = StateMachineInit
    /\ NoFiles
    /\ NoTimers
    /\ button = [pc |-> "idle"]
    /\ NoInput
    /\ NoPolling
    /\ result = [method |-> "__init__", value |-> None]
    /\ executed = <<>>

SetProposedRecipesCall ==
    /\ \E recipes \in RecipeLists :
          state_machine' = SetProposedRecipes(state_machine, recipes)
    /\ result' = [method |-> "set_proposed_recipes", value |-> None]
    /\ UNCHANGED <<pc, plan, artifacts, HAS_MATPLOTLIB, task_duration, bar, files,
                   timers, button, input, polling, executed>>

SelectRecipeCall ==
    /\ \E recipe_index \in RecipeIndices :
          /\ state_machine' = SelectRecipe(state_machine, recipe_index)
          /\ result' = [method |-> "select_recipe",
                        value |-> SelectRecipeReturns(state_machine, recipe_index)]
    /\ UNCHANGED <<pc, plan, artifacts, HAS_MATPLOTLIB, task_duration, bar, files,
                   timers, button, input, polling, executed>>

SetRecipeStepsCall ==
    /\ \E steps \in StepTextLists :
          state_machine' = SetRecipeSteps(state_machine, steps)
    /\ result' = [method |-> "set_recipe_steps", value |-> None]
    /\ UNCHANGED <<pc, plan, artifacts, HAS_MATPLOTLIB, task_duration, bar, files,
                   timers, button, input, polling, executed>>

NextStepCall ==
    /\ state_machine' = NextStep(state_machine)
    /\ result' = [method |-> "next_step", value |-> NextStepReturns(state_machine)]
    /\ UNCHANGED <<pc, plan, artifacts, HAS_MATPLOTLIB, task_duration, bar, files,
                   timers, button, input, polling, executed>>

ResetCall ==
    /\ state_machine' = Reset(state_machine)
    /\ result' = [method |-> "reset", value |-> None]
    /\ UNCHANGED <<pc, plan, artifacts, HAS_MATPLOTLIB, task_duration, bar, files,
                   timers, button, input, polling, executed>>

NextStateMachine ==
    \/ SetProposedRecipesCall
    \/ SelectRecipeCall
    \/ SetRecipeStepsCall
    \/ NextStepCall
    \/ ResetCall

SpecStateMachine == InitStateMachine /\ [][NextStateMachine]_vars

-----------------------------------------------------------------------------
(* hardware_handler.py: the thread of _poll_buttons on a Raspberry Pi, with *)
(* the buttons pressed and released at any time.  gpio.input is what        *)
(* GPIO.input returns for each pin (0 while the button is pressed, the pins *)
(* are pulled up), gpio.read what the poll read of each pin the last time,  *)
(* gpio.observed the pins it read as pressed after it had read them as      *)
(* released, in order, and gpio.presses the number of presses so far.  A    *)
(* call of calls is the record of the pin and of whether the callback       *)
(* raised.                                                                   *)

button_pins == <<6, 19, 0>>

Pins == {button_pins[k] : k \in DOMAIN button_pins}

\* the callbacks that may be registered: a pin without callback is not a key
ButtonCallbacks == UNION {[registered -> CallbackBehaviours] : registered \in SUBSET Pins}

\* button_states without the assignment of line 104
ButtonStatesKept(button_states, pin, current_state) == button_states

\* lines 103-104 and 112-113 of _poll_buttons: button_states after the pin
\* was read
ButtonStatesRead(button_states, pin, current_state) ==
    IF current_state /\ ~button_states[pin]
    THEN [button_states EXCEPT ![pin] = TRUE]
    ELSE IF ~current_state /\ button_states[pin]
    THEN [button_states EXCEPT ![pin] = FALSE]
    ELSE button_states

InitPoll ==
    /\ pc = "run"
    /\ NoConfirmation
    /\ state_machine =
          TransitionTo(AtFirstConfirmation(steps_data, recipe_name), "step_execution")
    /\ NoFiles
    /\ NoTimers
    /\ button = [pc |-> "idle"]
    /\ NoInput
    /\ \E button_callbacks \in ButtonCallbacks :
          hardware = [is_raspi |-> TRUE,
                      button_callbacks |-> button_callbacks,
                      button_states |-> [pin \in Pins |-> FALSE],
                      running |-> TRUE]
    /\ gpio = [input |-> [pin \in Pins |-> 1],
               read |-> [pin \in Pins |-> FALSE],
               observed |-> <<>>,
               presses |-> 0]
    /\ poll = [pc |-> "for", k |-> 1]
    /\ calls = <<>>
    /\ result = None
    /\ executed = <<>>

\* a button is pressed
Press ==
    /\ gpio.presses < MaxPresses
    /\ \E pin \in Pins :
          /\ gpio.input[pin] = 1
          /\ gpio' = [gpio EXCEPT !.input[pin] = 0, !.presses = @ + 1]
    /\ UNCHANGED <<pc, plan, artifacts, session, files, timers, button, input, hardware,
                   poll, calls, result, executed>>

\* a button is released
Release ==
    /\ \E pin \in Pins :
          /\ gpio.input[pin] = 0
          /\ gpio' = [gpio EXCEPT !.input[pin] = 1]
    /\ UNCHANGED <<pc, plan, artifacts, session, files, timers, button, input, hardware,
                   poll, calls, result, executed>>

\* _poll_buttons, lines 95-113: one pin of the for loop
PollPin ==
    /\ poll.pc = "for"
    /\ hardware.running
    /\ LET pin == button_pins[poll.k]
           current_state == gpio.input[pin] = 0
           pressed == current_state /\ ~hardware.button_states[pin]
       IN  /\ hardware' =
                 [hardware EXCEPT
                     !.button_states = ButtonStatesRead(@, pin, current_state)]
           /\ calls' =
                 IF pressed /\ pin \in DOMAIN hardware.button_callbacks
                 THEN Append(calls,
                             [pin |-> pin,
                              raised |-> hardware.button_callbacks[pin] = "raises"])
                 ELSE calls
           /\ gpio' = [gpio EXCEPT
                          !.read[pin] = current_state,
                          !.observed = IF current_state /\ ~gpio.read[pin]
                                       THEN Append(@, pin)
                                       ELSE @]
    /\ poll' = IF poll.k < Len(button_pins)
               THEN [poll EXCEPT !.k = @ + 1]
               ELSE [pc |-> "sleep", k |-> 1]
    /\ UNCHANGED <<pc, plan, artifacts, session, files, timers, button, input, result,
                   executed>>

\* _poll_buttons, line 116, and the test of line 94
PollSleep ==
    /\ poll.pc = "sleep"
    /\ poll' = [poll EXCEPT !.pc = "for"]
    /\ UNCHANGED <<pc, plan, artifacts, session, files, timers, button, input, hardware,
                   gpio, calls, result, executed>>

NextPoll ==
    \/ Press
    \/ Release
    \/ PollPin
    \/ PollSleep

SpecPoll == InitPoll /\ [][NextPoll]_vars

-----------------------------------------------------------------------------
(* The bar of create_ascii_gantt on its own, for the durations a JSON number *)
(* may be: whole minutes, half minutes and a two-hundredth of a minute.      *)

BarDenominators == {1, 2, 200}

BarDurations ==
    {<<n, d>> : n \in (0 - MaxBarNumerator)..MaxBarNumerator, d \in BarDenominators}

InitBar ==
    /\ pc = "draw_bar"
    /\ steps_data = <<>>
    /\ recipe_name \in RecipeNames
    /\ now = TicksPerMinute
    /\ i = 0
    /\ start_time = 0
    /\ gantt_data = EmptyGantt
    /\ json_file = <<>>
    /\ loaded_data = EmptyGantt
    /\ ascii_gantt = <<>>
    /\ run = 1
    /\ other_steps = <<>>
    /\ first_plan = NoPlan
    /\ HAS_MATPLOTLIB = FALSE
    /\ ascii_file = <<>>
    /\ fig = NoFigure
    /\ png_file = NoFigure
    /\ exception = "none"
    /\ state_machine = AtFirstConfirmation(steps_data, recipe_name)
    /\ task_duration \in BarDurations
    /\ bar = <<>>
    /\ NoThreads

\* lines 93-108 for one task
DrawBar ==
    /\ pc = "draw_bar"
    /\ bar' = Bar(task_duration[1], task_duration[2])
    /\ pc' = "bar_drawn"
    /\ UNCHANGED <<steps_data, recipe_name, now, i, start_time, gantt_data, json_file,
                   loaded_data, ascii_gantt, run, other_steps, first_plan, artifacts,
                   HAS_MATPLOTLIB, state_machine, task_duration, threads>>

NextBar == DrawBar

SpecBar == InitBar /\ [][NextBar]_vars

-----------------------------------------------------------------------------
(* Vocabulary of the claims *)

Range(f) == {f[k] : k \in DOMAIN f}

\* the plan has been returned to confirm_recipe
Produced == pc \in {"generated", "saved", "cooking_guidance"}

\* the plan has been written, reloaded and rendered
Saved == pc \in {"saved", "cooking_guidance"}

\* start and end of the k-th task of a plan, in ticks
StartOf(tasks, k) == Strptime(tasks[k].start)

EndOf(tasks, k) == Strptime(tasks[k].start) + tasks[k].duration

\* the anchor at the resolution a start is stored with
AnchorTime == Strptime(Strftime(now))

\* the tasks a dependency id resolves to
Resolved(tasks, id) == {k \in DOMAIN tasks : tasks[k].id = id}

\* the latest end among the resolved dependencies of the k-th task, the anchor
\* when there is none
LatestDependencyEnd(tasks, k) ==
    LET ends == {EndOf(tasks, d) :
                    d \in UNION {Resolved(tasks, id) : id \in Range(tasks[k].predecessors)}}
    IN  IF ends = {} THEN AnchorTime
        ELSE CHOOSE e \in ends : \A other \in ends : e >= other

\* id and dependencies of the k-th step of an input
StepId(steps, k) ==
    IF IsStr(steps[k]) THEN SyntheticId(k - 1) ELSE Get(steps[k], "id", SyntheticId(k - 1))

StepDependencies(steps, k) ==
    IF IsStr(steps[k]) THEN {} ELSE Range(Get(steps[k], "dependencies", <<>>))

\* step k waits, through at most n dependencies in a row, for step j
RECURSIVE WaitsFor(_, _, _, _)
WaitsFor(steps, k, j, n) ==
    /\ n > 0
    /\ \E d \in DOMAIN steps :
          /\ StepId(steps, d) \in StepDependencies(steps, k)
          /\ d = j \/ WaitsFor(steps, d, j, n - 1)

HasCycle(steps) == \E k \in DOMAIN steps : WaitsFor(steps, k, k, Len(steps))

-----------------------------------------------------------------------------
(* Claims *)

\* C1: in every plan produced from an acyclic step list, every dependency of
\* a step that resolves to a step of the recipe ends no later than the step
\* starts, wherever the dependency stands in the input.
C1_DependenciesEndBeforeStart ==
    (Produced /\ ~HasCycle(steps_data)) =>
        \A s \in DOMAIN gantt_data.tasks :
            \A id \in Range(gantt_data.tasks[s].predecessors) :
                \A d \in Resolved(gantt_data.tasks, id) :
                    EndOf(gantt_data.tasks, d) <= StartOf(gantt_data.tasks, s)

\* C2: every step of a plan produced from an acyclic step list starts at the
\* later of the anchor and the latest end among its dependencies; a step
\* without dependencies starts at the anchor.
C2_StartIsLatestDependencyEnd ==
    (Produced /\ ~HasCycle(steps_data)) =>
        \A k \in DOMAIN gantt_data.tasks :
            StartOf(gantt_data.tasks, k)
                = Max(AnchorTime, LatestDependencyEnd(gantt_data.tasks, k))

\* C3: a step list whose dependencies contain a cycle gets no plan: none is
\* returned, none is saved and none is rendered.
C3_CyclicInputGetsNoPlan ==
    HasCycle(steps_data) => (~Produced /\ json_file = <<>> /\ ascii_gantt = <<>>)

\* the scenario: A (2 minutes), B (3 minutes, after A), C (1 minute, after A
\* and B)
Scenario == <<StepA, StepB, StepC>>

\* C4: the scenario A, B, C is planned as A = [T0, T0+2], B = [T0+2, T0+5],
\* C = [T0+5, T0+6], T0 being the anchor as a start is stored (to the minute),
\* and the legend of the text chart gives a total duration of 6 minutes.
C4_ScenarioPlan ==
    (steps_data = Scenario) =>
        /\ Produced =>
              /\ [k \in DOMAIN gantt_data.tasks |-> gantt_data.tasks[k].id]
                    = <<Id_A, Id_B, Id_C>>
              /\ [k \in DOMAIN gantt_data.tasks |-> gantt_data.tasks[k].start]
                    = <<Strftime(now), Strftime(now) + 2, Strftime(now) + 5>>
              /\ [k \in DOMAIN gantt_data.tasks |-> EndOf(gantt_data.tasks, k)]
                    = <<AnchorTime + Minutes(2), AnchorTime + Minutes(5),
                        AnchorTime + Minutes(6)>>
        /\ Saved =>
              /\ TotalDuration(loaded_data.tasks) = Minutes(6)
              /\ ascii_gantt[Len(ascii_gantt) - 2] = LegendLine(Minutes(6), FALSE)

C4_ScenarioRendered ==
    /\ steps_data = Scenario
    /\ pc = "saved"
    /\ Len(gantt_data.tasks) = 3

\* C5: plan construction called again on the steps and at the clock reading
\* of the first call returns the plan the first call returned, also when a
\* plan for another recipe was constructed in between.
C5_RerunGivesSamePlan ==
    (pc = "generated" /\ run > 1
        /\ steps_data = first_plan.steps_data /\ now = first_plan.now) =>
        gantt_data = first_plan.gantt_data

C5_RerunAfterOtherRecipe ==
    /\ pc = "generated"
    /\ run = 3
    /\ steps_data = first_plan.steps_data
    /\ other_steps # steps_data
    /\ Len(gantt_data.tasks) >= 2
    /\ gantt_data.tasks[2].start > Strftime(now)

\* C6: the file written by the save operation loads back as the same tasks in
\* the same order, with equal id, name, start, duration and predecessors, and
\* completion 0.
C6_SaveLoadRoundTrip ==
    Saved =>
        /\ Len(loaded_data.tasks) = Len(gantt_data.tasks)
        /\ \A k \in DOMAIN gantt_data.tasks :
              LET saved == gantt_data.tasks[k]
                  loaded == loaded_data.tasks[k]
              IN  /\ Get(loaded, "id", <<>>) = saved.id
                  /\ Get(loaded, "name", <<>>) = saved.name
                  /\ Get(loaded, "start", 0 - 1) = saved.start
                  /\ Get(loaded, "duration", 0 - 1) = saved.duration
                  /\ Get(loaded, "predecessors", <<>>) = saved.predecessors
                  /\ Get(loaded, "complete", 0 - 1) = 0

C6_PlanWithDependenciesSaved ==
    /\ pc = "saved"
    /\ Len(loaded_data.tasks) >= 2
    /\ \E k \in DOMAIN gantt_data.tasks : Len(gantt_data.tasks[k].predecessors) = 2
    /\ json_file # <<>>

\* the ids among the dependencies of the k-th task that no task has
Unresolved(tasks, k) ==
    {id \in Range(tasks[k].predecessors) : Resolved(tasks, id) = {}}

\* C7: a step that names a dependency no step has is planned without error
\* and starts as if the id were not in its list: at the anchor, or at the
\* latest end among the dependencies that do resolve.
C7_UnresolvedDependencyStartsAsIfAbsent ==
    (Produced /\ ~HasCycle(steps_data)) =>
        \A k \in DOMAIN gantt_data.tasks :
            Unresolved(gantt_data.tasks, k) # {} =>
                StartOf(gantt_data.tasks, k)
                    = Max(AnchorTime, LatestDependencyEnd(gantt_data.tasks, k))

\* the ids an annotation entry may stand for: "id:name[:5]" or the bare id
NamesKnownId(tasks, entry) ==
    \E k \in DOMAIN tasks :
        \/ entry = tasks[k].id
        \/ entry = tasks[k].id \o <<":">> \o Take(ShortName(tasks[k], k - 1), 5)

\* C8: unresolved dependency ids are dropped: every id in a dependency list of
\* the plan that is produced and saved, and every id a dependency annotation
\* of the text chart shows, is the id of a step of the recipe.
C8_UnresolvedIdsAreDropped ==
    /\ Produced =>
          \A k \in DOMAIN gantt_data.tasks : Unresolved(gantt_data.tasks, k) = {}
    /\ Saved =>
          /\ \A k \in DOMAIN loaded_data.tasks : Unresolved(loaded_data.tasks, k) = {}
          /\ \A id \in Range(DependencyOrder(loaded_data.tasks)) :
                \A entry \in Range(ShownNames(loaded_data.tasks,
                                              PredecessorsOf(loaded_data.tasks, id))) :
                    NamesKnownId(loaded_data.tasks, entry)

\* C9: an empty step list is no error: the plan has no task and the text
\* rendering is the "no tasks" message alone, without header, bars or legend.
C9_EmptyStepListRendersNoTasks ==
    (steps_data = <<>>) =>
        /\ Produced => gantt_data.tasks = <<>>
        /\ Saved => (loaded_data.tasks = <<>> /\ ascii_gantt = <<NoTasksMessage>>)

C9_EmptyPlanRendered ==
    /\ steps_data = <<>>
    /\ pc = "saved"
    /\ json_file # <<>>

\* C10: the ids of a constructed plan are pairwise distinct: a step list in
\* which two steps end up with the same id is rejected, not planned.
C10_IdsAreDistinct ==
    Produced =>
        \A k, m \in DOMAIN gantt_data.tasks :
            gantt_data.tasks[k].id = gantt_data.tasks[m].id => k = m

\* the duration a step declares, the default when it declares none
DeclaredDuration(step) ==
    IF IsStr(step) THEN Minutes(DefaultDuration)
    ELSE Get(step, "duration_minutes", Minutes(DefaultDuration))

\* C11: no step of a produced plan starts before the anchor, also when some
\* step declares a duration of zero or less, and every step is stored with
\* the duration it declares, unclamped.
C11_NoStartBeforeAnchor ==
    Produced =>
        \A k \in DOMAIN gantt_data.tasks :
            /\ StartOf(gantt_data.tasks, k) >= AnchorTime
            /\ gantt_data.tasks[k].duration = DeclaredDuration(steps_data[k])

\* the makespan of a plan: from the anchor to the latest end
Makespan(tasks) ==
    LET ends == {EndOf(tasks, k) : k \in DOMAIN tasks}
    IN  (CHOOSE e \in ends : \A other \in ends : e >= other) - AnchorTime

\* the durations of a plan, added up
SumOfDurations(tasks) == SumSeq([k \in DOMAIN tasks |-> tasks[k].duration])

\* C12: the total duration the legend of the text chart reports is the sum of
\* the durations of all steps of the plan, whatever the makespan of the plan.
C12_LegendTotalIsSumOfDurations ==
    (Saved /\ gantt_data.tasks # <<>>) =>
        ascii_gantt[Len(ascii_gantt) - 2]
            = LegendLine(SumOfDurations(gantt_data.tasks),
                         \E k \in DOMAIN gantt_data.tasks :
                             gantt_data.tasks[k].duration % TicksPerMinute # 0)

C12_SumDiffersFromMakespan ==
    /\ pc = "saved"
    /\ Len(gantt_data.tasks) >= 2
    /\ SumOfDurations(gantt_data.tasks) > Makespan(gantt_data.tasks)
    /\ ascii_gantt[Len(ascii_gantt) - 2]
          # LegendLine(Makespan(gantt_data.tasks), FALSE)

\* a line of the text chart that holds a "Requiert:" continuation, not a bar
IsContinuationLine(line) ==
    Take(line, name_width + 12)
        = Rep(" ", name_width + 3) \o <<"R", "e", "q", "u", "i", "e", "r", "t", ":">>

\* the bar lines of a text chart, top to bottom: what stands between the
\* header and the legend block, the continuation lines left out
BarLines(chart) ==
    SelectSeq(SubSeq(chart, HeaderLines + 1, Len(chart) - 5),
              LAMBDA line : ~IsContinuationLine(line))

\* C18: in the text chart the label field of every step is exactly
\* name_width (30) characters, followed by " | ": a longer name is cut to 27
\* characters and "...", a shorter one is followed by spaces only, so every
\* bar starts at column 33.
C18_LabelFieldHasFixedWidth ==
    (Saved /\ gantt_data.tasks # <<>>) =>
        /\ Len(BarLines(ascii_gantt)) = Len(gantt_data.tasks)
        /\ \A k \in DOMAIN gantt_data.tasks :
              LET name == gantt_data.tasks[k].name
                  line == BarLines(ascii_gantt)[k]
                  label == Take(line, name_width)
              IN  /\ Len(line) > name_width + 3
                  /\ SubSeq(line, name_width + 1, name_width + 3) = <<" ", "|", " ">>
                  /\ line[name_width + 4] = "="
                  /\ IF Len(name) > name_width
                     THEN /\ Take(label, name_width - 3) = Take(name, name_width - 3)
                          /\ Drop(label, name_width - 3) = <<".", ".", ".">>
                     ELSE /\ Take(label, Len(name)) = name
                          /\ \A c \in Len(name) + 1..name_width : label[c] = " "

C18_LongAndShortNamesRendered ==
    /\ pc = "saved"
    /\ \E k \in DOMAIN gantt_data.tasks : Len(gantt_data.tasks[k].name) > name_width
    /\ \E k \in DOMAIN gantt_data.tasks : Len(gantt_data.tasks[k].name) = name_width
    /\ \E k \in DOMAIN gantt_data.tasks : Len(gantt_data.tasks[k].name) < name_width
    /\ Len(ascii_gantt) > Len(gantt_data.tasks) + HeaderLines + 5

\* ascii_output and task_positions after the first n keys of
\* task_dependencies have been annotated, legend not yet appended
AnnotatedUpTo(n, tasks, header, terminal_width) ==
    Annotate(1, Take(DependencyOrder(tasks), n), tasks,
             header \o [k \in DOMAIN tasks |-> TaskLine(tasks[k], k - 1)],
             InitialPositions(tasks), terminal_width)

\* the 0-based index, among the lines laid out so far, of the bar of the
\* k-th task: the k-th line below the header that is no continuation line
OwnBarIndex(lines, k) ==
    CHOOSE n \in HeaderLines..(Len(lines) - 1) :
        /\ ~IsContinuationLine(lines[n + 1])
        /\ Cardinality({m \in HeaderLines..(n - 1) :
                            ~IsContinuationLine(lines[m + 1])}) = k - 1

\* the n-th annotation inserted a continuation line
InsertedAt(n, tasks, header, terminal_width) ==
    Len(AnnotatedUpTo(n, tasks, header, terminal_width).lines)
        > Len(AnnotatedUpTo(n - 1, tasks, header, terminal_width).lines)

\* after the n-th annotation: the line index stored for the id of every step
\* is the index of the step's own bar, and the continuation line is right
\* below the bar of the step whose dependencies it lists
PositionsConsistentAfter(n, tasks, header, terminal_width) ==
    LET after == AnnotatedUpTo(n, tasks, header, terminal_width)
        owner == FirstIndexOf(tasks, DependencyOrder(tasks)[n]) + 1
        below == OwnBarIndex(after.lines, owner) + 1
    IN  /\ \A k \in DOMAIN tasks :
              after.positions[TaskId(tasks, k - 1)] = OwnBarIndex(after.lines, k)
        /\ below < Len(after.lines)
        /\ after.lines[below + 1]
              = Take(Rep(" ", name_width + 3)
                     \o <<"R", "e", "q", "u", "i", "e", "r", "t", ":", " ">>
                     \o Join(ShownNames(tasks, tasks[owner].predecessors)),
                     terminal_width)

\* C20: while create_ascii_gantt annotates the dependencies, after every
\* annotation that inserts a continuation line the line index stored for each
\* step is the index of the line that holds the step's own bar, and the
\* continuation line is right below the bar of the step it annotates, however
\* many steps need a continuation line.
C20_LineIndicesFollowInsertions ==
    (Saved /\ loaded_data.tasks # <<>>) =>
        \A n \in 1..Len(DependencyOrder(loaded_data.tasks)) :
            InsertedAt(n, loaded_data.tasks, Take(ascii_gantt, HeaderLines),
                       Len(ascii_gantt[1]))
            => PositionsConsistentAfter(n, loaded_data.tasks,
                                        Take(ascii_gantt, HeaderLines),
                                        Len(ascii_gantt[1]))

\* C13: when writing the plan file fails in the save operation, the session
\* goes on: it is not terminated, the plan that was computed is kept and
\* recipe confirmation leads on to cooking guidance.
C13_WriteFailureKeepsSession ==
    (exception = "write") =>
        /\ pc \in {"saved", "cooking_guidance"}
        /\ gantt_data = first_plan.gantt_data

\* C14: a failure of one renderer in process_gantt_file does not keep the
\* other from producing its artifact: after a failure of the text renderer
\* the figure is saved (where matplotlib is there and the plan has tasks),
\* after a failure of the raster renderer the text chart is saved.
C14_RendererFailuresAreIsolated ==
    Saved =>
        /\ (exception = "text" /\ HAS_MATPLOTLIB /\ loaded_data.tasks # <<>>) =>
              png_file # NoFigure
        /\ (exception = "raster") => ascii_file # <<>>

\* C15: without matplotlib visualize_gantt returns None and no figure is
\* saved, no failure comes from the raster renderer, and a save in which
\* nothing else fails produces and saves the text chart and leads on to
\* cooking guidance.
C15_NoMatplotlibTextOnly ==
    ~HAS_MATPLOTLIB =>
        /\ fig = NoFigure
        /\ png_file = NoFigure
        /\ exception # "raster"
        /\ (Saved /\ exception = "none") =>
              /\ ascii_file # <<>>
              /\ \E columns \in TerminalColumns :
                    ascii_file = CreateAsciiGantt(loaded_data, ChartTitle(recipe_name),
                                                  Min(columns, MaxTerminalWidth))
        /\ (pc = "cooking_guidance") => state_machine.current_state = "cooking_guidance"

C15_FlowCompletedWithoutMatplotlib ==
    /\ ~HAS_MATPLOTLIB
    /\ pc = "cooking_guidance"
    /\ exception = "none"
    /\ Len(gantt_data.tasks) >= 2
    /\ ascii_file # <<>>
    /\ ascii_gantt # ascii_file

\* C17: rendering leaves the plan as it is: whatever calls of
\* create_ascii_gantt, visualize_gantt and process_gantt_file were made, the
\* plan in memory, the plan in the file and the plan the renderers were handed
\* have the tasks that were constructed, each with its id, name, start,
\* duration, completion and predecessors.
C17_RenderingLeavesPlanUnchanged ==
    Saved =>
        /\ gantt_data = first_plan.gantt_data
        /\ json_file = JsonDump(first_plan.gantt_data)
        /\ Len(loaded_data.tasks) = Len(first_plan.gantt_data.tasks)
        /\ \A k \in DOMAIN first_plan.gantt_data.tasks :
              \A key \in Range(TaskKeys) :
                  loaded_data.tasks[k][key] = first_plan.gantt_data.tasks[k][key]

C17_RenderedAgainAfterFailure ==
    /\ pc = "saved"
    /\ exception = "text"
    /\ png_file # NoFigure
    /\ ascii_file # <<>>
    /\ ascii_gantt # ascii_file
    /\ \E k \in DOMAIN gantt_data.tasks : gantt_data.tasks[k].predecessors # <<>>

\* C16: whenever the session is back at the collection of the ingredients,
\* at its start or after the restart from COMPLETED, the state machine holds
\* nothing of a recipe: recipe_steps and proposed_recipes are empty,
\* selected_recipe is None, current_step is 0 and there are no detailed steps.
C16_RestartLeavesNoRecipeData ==
    (pc = "run" /\ state_machine.current_state = "ingredient_collection") =>
        /\ state_machine.recipe_steps = <<>>
        /\ state_machine.selected_recipe = None
        /\ state_machine.proposed_recipes = <<>>
        /\ state_machine.current_step = 0
        /\ "detailed_steps" \notin DOMAIN state_machine

\* n/d rounded up to a whole number
RoundedUp(n, d) == 0 - ((0 - n) \div d)

\* C19: the bar of a step of d minutes is max(1, d rounded up to a whole
\* minute) characters long, with or without the duration written inside, and
\* the duration is written inside, after one "=", only when the bar has room
\* for it and one "=" on each side.
C19_BarLengthIsDurationRoundedUp ==
    (pc = "bar_drawn") =>
        LET length == Max(1, RoundedUp(task_duration[1], task_duration[2]))
            duration_label == FormatRounded(task_duration[1], task_duration[2]) \o <<"m">>
        IN  /\ Len(bar) = length
            /\ \/ bar = Rep("=", length)
               \/ /\ length >= Len(duration_label) + 2
                  /\ bar = <<"=">> \o duration_label
                           \o Rep("=", length - Len(duration_label) - 1)

\* C21: in the figure, an arrow is drawn for exactly the predecessors that
\* are the id of a task; each arrow has its tail at the end of the
\* predecessor on a row of a task of that id, and its head at the start of
\* the dependent task on the row of that task.
C21_EdgesRunFromEndToStart ==
    (Saved /\ png_file # NoFigure) =>
        LET tasks == loaded_data.tasks
        IN  \A k \in DOMAIN tasks :
                LET resolved == SelectSeq(tasks[k].predecessors,
                                          LAMBDA id : Resolved(tasks, id) # {})
                    arrows == png_file.arrows[k]
                IN  /\ Len(arrows) = Len(resolved)
                    /\ \A j \in DOMAIN arrows :
                          /\ j \in DOMAIN resolved
                          /\ arrows[j].from + 1 \in Resolved(tasks, resolved[j])
                          /\ arrows[j].tail[1] =
                                arrows[j].tail[2] * EndOf(tasks, arrows[j].from + 1)
                          /\ arrows[j].to = k - 1
                          /\ arrows[j].at = StartOf(tasks, k)

\* C23: the plan is sequential in input order: the first step starts at the
\* anchor, every later step starts at the end (start + duration) of the step
\* right before it in the input, and a bare string step lasts 5 minutes.
C23_StepsFollowOneAnother ==
    Produced =>
        LET tasks == gantt_data.tasks
        IN  /\ Len(tasks) = Len(steps_data)
            /\ tasks # <<>> => StartOf(tasks, 1) = AnchorTime
            /\ \A k \in DOMAIN tasks :
                  /\ IsStr(steps_data[k]) => tasks[k].duration = Minutes(DefaultDuration)
                  /\ k > 1 => StartOf(tasks, k) = EndOf(tasks, k - 1)

\* C22: of two saves for the same recipe name, made in the same second of
\* the clock, both have the same file name and the file holds the plan of the
\* later one; made in different seconds, they have different file names.
C22_SameSecondSameFile ==
    (pc = "saved" /\ previous # <<>> /\ previous[1].recipe_name = recipe_name) =>
        LET earlier == previous[1]
            later == gantt_charts[filename]
        IN  IF earlier.file.mtime \div TicksPerSecond = later.mtime \div TicksPerSecond
            THEN /\ filename = earlier.filename
                 /\ gantt_charts[earlier.filename].content = JsonDump(gantt_data)
            ELSE filename # earlier.filename

C22_LaterPlanReplacedEarlier ==
    /\ pc = "saved"
    /\ previous # <<>>
    /\ previous[1].recipe_name = recipe_name
    /\ previous[1].filename = filename
    /\ previous[1].file.mtime < gantt_charts[filename].mtime
    /\ previous[1].file.content # gantt_charts[filename].content

\* the lines of console that say event for timer_id
Deliveries(event, timer_id) ==
    {k \in DOMAIN console : console[k] = [event |-> event, timer_id |-> timer_id]}

\* C24: the line that says a timer expired is printed at most once for each
\* timer, and its callback is called at most once, whether the callback
\* returns or raises.
C24_ExpiryDeliveredAtMostOnce ==
    \A timer_id \in 1..MaxTimers :
        /\ Cardinality(Deliveries("TIMER EXPIRED", timer_id)) <= 1
        /\ Cardinality(Deliveries("callback", timer_id)) <= 1

\* C25: after stop_timer has returned True for a timer, no line says that
\* the timer expired and its callback is not called.
C25_NoDeliveryAfterStop ==
    \A timer_id \in 1..MaxTimers :
        \A stopped \in Deliveries("stopped", timer_id) :
            \A k \in Deliveries("TIMER EXPIRED", timer_id)
                      \cup Deliveries("callback", timer_id) : k < stopped

\* C26: the RECIPE_PROPOSAL that the Back button sets is the next state the
\* main loop processes: no step takes the state away from RECIPE_PROPOSAL but
\* that of the main loop which, at the top of its loop, proposes recipes and
\* goes on to RECIPE_CONFIRMATION.
C26_BackIsNotOverwritten ==
    [][(/\ state_machine.current_state = "recipe_proposal"
        /\ state_machine'.current_state # "recipe_proposal")
       => (pc = "run" /\ state_machine'.current_state = "recipe_confirmation")]_vars

\* the 0-based indices of the first n steps
FirstSteps(n) == [k \in 1..n |-> k - 1]

\* C28: while the steps of a recipe are executed, those for which
\* execute_current_step has returned True are the first steps of the recipe,
\* each once and in increasing order, and COMPLETED is entered only when
\* they are all its steps; after quit the state is not COMPLETED.
C28_CompletedAfterEveryStep ==
    LET n == Len(state_machine.recipe_steps)
    IN  /\ state_machine.current_state \in {"step_execution", "completed"} =>
              /\ Len(executed) <= n
              /\ executed = FirstSteps(Len(executed))
        /\ state_machine.current_state = "step_execution" =>
              state_machine.current_step = Len(executed)
        /\ state_machine.current_state = "completed" =>
              /\ n > 0
              /\ executed = FirstSteps(n)

C28_TwoStepsThenCompleted ==
    /\ state_machine.current_state = "completed"
    /\ executed = <<0, 1>>
    /\ pc = "run"

\* C27: during step execution a line the user types is received by the input
\* thread of the step that is current when it is typed: no thread left over
\* from an earlier step, which the Next button advanced, takes it
C27_LinesReachTheCurrentStep ==
    \A k \in DOMAIN input_threads :
        input_threads[k].value # None =>
            input_threads[k].typed_at = input_threads[k].step

\* current_step is an index of recipe_steps, or 0 when there are no steps
StepInBounds(obj) ==
    /\ obj.current_step >= 0
    /\ obj.recipe_steps # <<>> => obj.current_step < Len(obj.recipe_steps)

\* C29: whatever the sequence of set_recipe_steps, next_step, select_recipe
\* and reset, current_step is at least 0 and, when recipe_steps is not empty,
\* less than its length; at the last step next_step returns False and leaves
\* current_step as it is
C29_CurrentStepStaysWithinTheSteps ==
    [][/\ StepInBounds(state_machine)
       /\ StepInBounds(state_machine')
       /\ (/\ result'.method = "next_step"
           /\ state_machine.current_step = Len(state_machine.recipe_steps) - 1)
          => (/\ result'.value = FALSE
              /\ state_machine'.current_step = state_machine.current_step)]_vars

\* next_step was called at the last of several steps
C29_NextStepAtLastStep ==
    /\ result.method = "next_step"
    /\ result.value = FALSE
    /\ Len(state_machine.recipe_steps) >= 2
    /\ state_machine.current_step = Len(state_machine.recipe_steps) - 1

\* the pins of a sequence of pins that have a callback
WithCallback(pins) ==
    SelectSeq(pins, LAMBDA pin : pin \in DOMAIN hardware.button_callbacks)

\* C30: the callback of a pin is called once for each time the poll reads the
\* pin as pressed after it read it as released, in that order, and not again
\* while the button is held; the calls go on, for every pin, after a callback
\* has raised
C30_OneCallForEachPress ==
    [k \in DOMAIN calls |-> calls[k].pin] = WithCallback(gpio.observed)

\* the callback of pin 6 raised, then the one of pin 19 was called, then the
\* one of pin 6 once more
C30_CalledAgainAfterRaising ==
    calls = <<[pin |-> 6, raised |-> TRUE], [pin |-> 19, raised |-> FALSE],
              [pin |-> 6, raised |-> TRUE]>>

====
